---- MODULE Spec2Model ----
(***************************************************************************)
(* Model of the Spotify-Stats backend: the streaming-history importer      *)
(* (importSpotifyHistory.js), the deduplication engine                     *)
(* (dataDeduplication.js) and the live tracker, over a store made of the   *)
(* two tables spotify_plays and import_uploads.                            *)
(*                                                                         *)
(* Text is a tuple of one-character strings.  An instant (played_at) is    *)
(* the number of milliseconds since EpochDays 00:00:00 UTC: the ISO-8601   *)
(* strings the code passes around carry exactly that instant, and the      *)
(* origin is shifted from 1970 so that the numbers fit the checker's       *)
(* integers.                                                               *)
(***************************************************************************)
EXTENDS Integers, Sequences, FiniteSets, TLC

VARIABLES plays, uploads, nextId, sourceDefault, faults, last

vars == <<plays, uploads, nextId, sourceDefault, faults, last>>

(***************************************************************************)
(* Bounds of the model.                                                    *)
(***************************************************************************)
\* rows the store assigns an id to over a whole behaviour
MaxId == 2
\* records in one uploaded file
MaxRecords == 2
\* items in one answer of the recently-played endpoint
MaxSyncItems == 1
\* rows of import_uploads
MaxUploads == 1
\* store and API calls that fail over a whole behaviour
MaxFaults == 1

\* the items one run of the tracker fetches next to an import
MaxConcurrentItems == 2

\* the full batches of the longest list handed to batchInsertPlays by itself,
\* and the calls made of it
MaxBatches == 2

MaxBatchCalls == 2

\* the plays in one list handed to removeDuplicateImportPlays by itself
MaxFilterLen == 3

\* the records of a file handed to the transform by itself
MaxTransformLen == 3

\* the days either side of 2023-12-27 of the timestamps handed to
\* convertEndTime by itself
ClockDays == 23

(***************************************************************************)
(* Program constants.                                                      *)
(***************************************************************************)
\* the ±5 s tolerance of the matcher, in ms
ToleranceMs == 5000
\* rows per upsert of the importer
BatchSize == 100

\* the fixed owner every class uses
UserId == <<"u","1">>

Min(a, b) == IF a < b THEN a ELSE b

(***************************************************************************)
(* Text.                                                                   *)
(***************************************************************************)
IsDigit(c) == c \in {"0","1","2","3","4","5","6","7","8","9"}

DigitVal(c) ==
  CASE c = "0" -> 0 [] c = "1" -> 1 [] c = "2" -> 2 [] c = "3" -> 3 [] c = "4" -> 4
    [] c = "5" -> 5 [] c = "6" -> 6 [] c = "7" -> 7 [] c = "8" -> 8 [] OTHER -> 9

\* String.prototype.toLowerCase on the letters the model uses
LowerChar(c) ==
  CASE c = "S" -> "s" [] c = "A" -> "a" [] c = "T" -> "t" [] OTHER -> c

ToLowerCase(s) == [i \in 1..Len(s) |-> LowerChar(s[i])]

RECURSIVE TrimStart(_)
TrimStart(s) ==
  IF s # <<>> /\ Head(s) = " " THEN TrimStart(Tail(s)) ELSE s

RECURSIVE TrimEnd(_)
TrimEnd(s) ==
  IF s # <<>> /\ s[Len(s)] = " " THEN TrimEnd(SubSeq(s, 1, Len(s) - 1)) ELSE s

Trim(s) == TrimEnd(TrimStart(s))

\* String.prototype.split with a one-character separator
RECURSIVE Split(_, _)
Split(s, sep) ==
  IF \E i \in 1..Len(s) : s[i] = sep
  THEN LET i == CHOOSE k \in 1..Len(s) :
                  s[k] = sep /\ \A j \in 1..(k - 1) : s[j] # sep
       IN <<SubSeq(s, 1, i - 1)>> \o Split(SubSeq(s, i + 1, Len(s)), sep)
  ELSE <<s>>

\* the leading run of decimal digits of s, as a number
RECURSIVE DigitPrefix(_, _)
DigitPrefix(s, acc) ==
  IF s # <<>> /\ IsDigit(Head(s))
  THEN DigitPrefix(Tail(s), acc * 10 + DigitVal(Head(s)))
  ELSE acc

\* parseInt of a string: leading white space, an optional sign, then decimal
\* digits up to the first other character; NaN without a digit
ParseIntText(s) ==
  LET t   == TrimStart(s)
      neg == t # <<>> /\ Head(t) = "-"
      u   == IF t # <<>> /\ Head(t) \in {"-", "+"} THEN Tail(t) ELSE t
  IN IF u # <<>> /\ IsDigit(Head(u))
     THEN [nan |-> FALSE, n |-> IF neg THEN 0 - DigitPrefix(u, 0) ELSE DigitPrefix(u, 0)]
     ELSE [nan |-> TRUE, n |-> 0]

(***************************************************************************)
(* JSON values of an uploaded record: a string or a number (a number is    *)
(* kept as its decimal text, which is what parseInt reads); an absent      *)
(* field is one outside the record's DOMAIN.                               *)
(***************************************************************************)
Str(s) == [t |-> "str", v |-> s]
Num(s) == [t |-> "num", v |-> s]

Has(item, f) == f \in DOMAIN item

\* a falsy value: undefined, "" or the number 0
Falsy(item, f) ==
  \/ ~Has(item, f)
  \/ item[f].t = "str" /\ item[f].v = <<>>
  \/ item[f].t = "num" /\ ~ParseIntText(item[f].v).nan /\ ParseIntText(item[f].v).n = 0

\* parseInt(item[f]): undefined reads as the text "undefined"
ParseIntField(item, f) ==
  IF Has(item, f) THEN ParseIntText(item[f].v) ELSE [nan |-> TRUE, n |-> 0]

(***************************************************************************)
(* Date.UTC: a month outside 0..11 carries into the year, a day outside    *)
(* the month carries into the following months, hours and minutes add.     *)
(***************************************************************************)
DaysFromCivil(y, m, d) ==
  LET yy  == IF m <= 2 THEN y - 1 ELSE y
      era == yy \div 400
      yoe == yy - era * 400
      mp  == IF m > 2 THEN m - 3 ELSE m + 9
      doy == (153 * mp + 2) \div 5 + d - 1
      doe == yoe * 365 + yoe \div 4 - yoe \div 100 + doy
  IN era * 146097 + doe - 719468

\* day number of 2023-12-27, the origin of the model's clock
EpochDays == DaysFromCivil(2023, 12, 27)

\* the day number Date.UTC comes to
UTCDay(year, month0, day) ==
  LET ym == year + month0 \div 12
      mn == month0 % 12
  IN DaysFromCivil(ym, mn + 1, 1) + (day - 1)

DateUTC(year, month0, day, hour, minute) ==
  (UTCDay(year, month0, day) - EpochDays) * 86400000 + hour * 3600000 + minute * 60000

(***************************************************************************)
(* SpotifyHistoryImporter: the pure helpers.                               *)
(***************************************************************************)
NullId == <<>>

\* The first 22 hex digits of a SHA-256 are modelled as an injective image of
\* the hashed text (collisions are not modelled).  "throws" is the TypeError
\* of calling toLowerCase on a number.
generateTrackId(item) ==
  IF Falsy(item, "trackName") \/ Falsy(item, "artistName")
  THEN [throws |-> FALSE, id |-> NullId]
  ELSE IF item["trackName"].t # "str" \/ item["artistName"].t # "str"
  THEN [throws |-> TRUE, id |-> NullId]
  ELSE [throws |-> FALSE,
        id |-> <<"#">> \o Trim(ToLowerCase(item["trackName"].v)) \o <<"|">>
                       \o Trim(ToLowerCase(item["artistName"].v))]

\* element i of an array, undefined (absent) past its end
HasPart(parts, i) == i <= Len(parts)

\* convertEndTime: [ok, ms]; ok = FALSE is the null the catch block returns
\* (split of a non-string or of a missing time part throws, an Invalid Date
\* makes toISOString throw)
convertEndTime(item) ==
  IF ~Has(item, "endTime") \/ item["endTime"].t # "str"
  THEN [ok |-> FALSE, ms |-> 0]
  ELSE LET parts == Split(item["endTime"].v, " ")
       IN IF ~HasPart(parts, 2)
          THEN [ok |-> FALSE, ms |-> 0]
          ELSE LET dp == Split(parts[1], "-")
                   tp == Split(parts[2], ":")
                   P(q, i) == IF HasPart(q, i) THEN ParseIntText(q[i])
                              ELSE [nan |-> TRUE, n |-> 0]
                   year == P(dp, 1)
                   month == P(dp, 2)
                   day == P(dp, 3)
                   hour == P(tp, 1)
                   minute == P(tp, 2)
               IN IF year.nan \/ month.nan \/ day.nan \/ hour.nan \/ minute.nan
                  THEN [ok |-> FALSE, ms |-> 0]
                  ELSE [ok |-> TRUE,
                        ms |-> DateUTC(year.n, month.n - 1, day.n, hour.n, minute.n)]

UnknownTrack == <<"U","n","k","n","o","w","n"," ","T","r","a","c","k">>
UnknownArtist == <<"U","n","k","n","o","w","n"," ","A","r","t","i","s","t">>

\* the playData object built for one record
PlayData(item, played_at, track_id) ==
  [user_id |-> UserId,
   track_id |-> track_id,
   track_name |-> IF Falsy(item, "trackName") THEN UnknownTrack ELSE item["trackName"].v,
   artist |-> IF Falsy(item, "artistName") THEN UnknownArtist ELSE item["artistName"].v,
   duration_ms |-> LET p == ParseIntField(item, "msPlayed") IN IF p.nan THEN 0 ELSE p.n,
   played_at |-> played_at,
   source |-> "import"]

\* variant of parseFrom that keeps the records of zero duration
RECURSIVE parseFromKeepingZero(_, _, _)
parseFromKeepingZero(items, i, acc) ==
  IF i > Len(items) THEN acc
  ELSE LET item == items[i]
           t == convertEndTime(item)
           g == generateTrackId(item)
       IN IF ~t.ok
          THEN parseFromKeepingZero(items, i + 1,
                                    [acc EXCEPT !.errors = Append(@, <<"endTime", i - 1>>)])
          ELSE IF g.throws
          THEN parseFromKeepingZero(items, i + 1,
                                    [acc EXCEPT !.errors = Append(@, <<"item", i - 1>>)])
          ELSE parseFromKeepingZero(items, i + 1,
                                    [acc EXCEPT !.plays = Append(@, PlayData(item, t.ms, g.id))])

\* variant of parseFrom that stops at the first record that fails
RECURSIVE parseFromUntilError(_, _, _)
parseFromUntilError(items, i, acc) ==
  IF i > Len(items) THEN acc
  ELSE LET item == items[i]
           t == convertEndTime(item)
           g == generateTrackId(item)
       IN IF ~t.ok
          THEN [acc EXCEPT !.errors = Append(@, <<"endTime", i - 1>>)]
          ELSE IF g.throws
          THEN [acc EXCEPT !.errors = Append(@, <<"item", i - 1>>)]
          ELSE LET pd == PlayData(item, t.ms, g.id)
               IN IF pd.duration_ms = 0
                  THEN parseFromUntilError(items, i + 1, acc)
                  ELSE parseFromUntilError(items, i + 1,
                                           [acc EXCEPT !.plays = Append(@, pd)])

\* parseStreamingHistory: data.forEach over the records from index i on
RECURSIVE parseFrom(_, _, _)
parseFrom(items, i, acc) ==
  IF i > Len(items) THEN acc
  ELSE LET item == items[i]
           t == convertEndTime(item)
           g == generateTrackId(item)
       IN IF ~t.ok
          THEN parseFrom(items, i + 1, [acc EXCEPT !.errors = Append(@, <<"endTime", i - 1>>)])
          ELSE IF g.throws
          THEN parseFrom(items, i + 1, [acc EXCEPT !.errors = Append(@, <<"item", i - 1>>)])
          ELSE LET pd == PlayData(item, t.ms, g.id)
               IN IF pd.duration_ms = 0
                  THEN parseFrom(items, i + 1, acc)
                  ELSE parseFrom(items, i + 1, [acc EXCEPT !.plays = Append(@, pd)])

parseStreamingHistory(items) == parseFrom(items, 1, [plays |-> <<>>, errors |-> <<>>])

RequiredFields == <<"endTime", "trackName", "artistName", "msPlayed">>

\* validateFile: "ok", or the message of the Error it throws
\* `Missing required field: ${field}`
MissingField(field) ==
  CASE field = "endTime" -> "Missing required field: endTime"
    [] field = "trackName" -> "Missing required field: trackName"
    [] field = "artistName" -> "Missing required field: artistName"
    [] field = "msPlayed" -> "Missing required field: msPlayed"

validateFile(filename, data) ==
  IF filename.prefix # "StreamingHistory" \/ filename.suffix # ".json"
  THEN "Invalid filename. Must be StreamingHistory*.json"
  ELSE IF ~data.isArray THEN "Invalid file format. Expected JSON array."
  ELSE IF Len(data.items) = 0 THEN "File is empty."
  ELSE IF \E k \in 1..Len(RequiredFields) : ~Has(data.items[1], RequiredFields[k])
  THEN LET k == CHOOSE j \in 1..Len(RequiredFields) :
                  /\ ~Has(data.items[1], RequiredFields[j])
                  /\ \A h \in 1..(j - 1) : Has(data.items[1], RequiredFields[h])
       IN MissingField(RequiredFields[k])
  ELSE "ok"

\* md5 of JSON.stringify(data), modelled as an injective image of the content
FileHash(data) == <<data>>

(***************************************************************************)
(* The store.  A row of spotify_plays is                                   *)
(*   [id, user_id, track_id, track_name, artist, duration_ms, played_at,   *)
(*    source]                                                              *)
(* and a row of import_uploads is                                          *)
(*   [filename, file_hash, user_id, total_plays, inserted_plays].          *)
(* Every call of the store client may fail (an error result or a thrown    *)
(* exception): the actions choose which calls do.                          *)
(***************************************************************************)
\* The repository describes the table twice.  The migration (part_000) adds
\* source with DEFAULT 'api', adds UNIQUE(user_id, track_name, artist,
\* played_at) and makes track_id nullable; the setup script (server.js) has
\* source DEFAULT 'import', track_id NOT NULL and no such constraint.
Migrated == sourceDefault = "api"

\* the row meets the conflict key (user_id, track_id, played_at) of r: a NULL
\* track_id meets none
MeetsConflictKey(row, r) ==
  /\ row.track_id # NullId
  /\ r.user_id = row.user_id
  /\ r.track_id = row.track_id
  /\ r.played_at = row.played_at

\* the two are one play by UNIQUE(user_id, track_name, artist, played_at)
SamePlay(row, r) ==
  /\ r.user_id = row.user_id
  /\ r.track_name = row.track_name
  /\ r.artist = row.artist
  /\ r.played_at = row.played_at

\* the rows of a statement that are not skipped (their positions, inserted)
\* go into the table with the next ids, unless one of them breaks a constraint
UpsertInserted(st, rows, inserted) ==
  LET Violates(k) ==
        \/ ~Migrated /\ rows[k].track_id = NullId
        \/ Migrated /\ \E r \in st.plays : SamePlay(rows[k], r)
        \/ Migrated /\ \E j \in inserted : j < k /\ SamePlay(rows[k], rows[j])
      Row(k) == [id |-> st.nextId + Cardinality({j \in inserted : j < k}),
                 user_id |-> rows[k].user_id,
                 track_id |-> rows[k].track_id,
                 track_name |-> rows[k].track_name,
                 artist |-> rows[k].artist,
                 duration_ms |-> rows[k].duration_ms,
                 played_at |-> rows[k].played_at,
                 source |-> rows[k].source]
  IN IF \E k \in inserted : Violates(k)
     THEN [st EXCEPT !.error = TRUE]
     ELSE [st EXCEPT !.plays = @ \cup {Row(k) : k \in inserted},
                     !.nextId = @ + Cardinality(inserted)]

\* INSERT ... ON CONFLICT (user_id, track_id, played_at) DO NOTHING of the rows
\* in their order: a row that meets the conflict key of a stored row, or of a
\* row before it in the statement, is skipped; a row that is not skipped and
\* breaks a constraint of the table is an error.  st = [plays, nextId, error]
UpsertRows(st, rows) ==
  CHOOSE done \in {UpsertInserted(st, rows, inserted) :
                     inserted \in {{k \in 1..Len(rows) :
                                      /\ ~\E x \in st.plays : MeetsConflictKey(rows[k], x)
                                      /\ ~\E j \in 1..(k - 1) :
                                            MeetsConflictKey(rows[k], rows[j])}}} : TRUE

\* one upsert statement: all of its rows, or an error and none of them
UpsertStatement(st, rows) ==
  CHOOSE out \in {IF done.error THEN [st EXCEPT !.error = TRUE] ELSE done :
                    done \in {UpsertRows([st EXCEPT !.error = FALSE], rows)}} : TRUE

\* variant of Upsert that is a plain INSERT under no constraint
UpsertPlain(st, rows) ==
  [st EXCEPT !.plays = @ \cup {[id |-> st.nextId + k - 1,
                                user_id |-> rows[k].user_id,
                                track_id |-> rows[k].track_id,
                                track_name |-> rows[k].track_name,
                                artist |-> rows[k].artist,
                                duration_ms |-> rows[k].duration_ms,
                                played_at |-> rows[k].played_at,
                                source |-> rows[k].source] : k \in 1..Len(rows)},
             !.nextId = @ + Len(rows),
             !.error = FALSE]

\* the upsert of the Supabase client, on the values of its arguments
Upsert(st, rows) ==
  CHOOSE out \in {UpsertStatement(s, r) : s \in {st}, r \in {rows}} : TRUE

(***************************************************************************)
(* DataDeduplication.                                                      *)
(***************************************************************************)
\* variants of hasNearbyApiPlay with a plausible slip each: bounds excluded,
\* only earlier plays looked at, a failed query taken for a match
hasNearbyApiPlayStrict(store, timestamp, fails) ==
  IF fails THEN FALSE
  ELSE \E r \in store : /\ r.user_id = UserId
                        /\ r.source = "api"
                        /\ r.played_at > timestamp - ToleranceMs
                        /\ r.played_at < timestamp + ToleranceMs

hasNearbyApiPlayBefore(store, timestamp, fails) ==
  IF fails THEN FALSE
  ELSE \E r \in store : /\ r.user_id = UserId
                        /\ r.source = "api"
                        /\ r.played_at >= timestamp - ToleranceMs
                        /\ r.played_at <= timestamp

hasNearbyApiPlayFailClosed(store, timestamp, fails) ==
  IF fails THEN TRUE
  ELSE \E r \in store : /\ r.user_id = UserId
                        /\ r.source = "api"
                        /\ r.played_at >= timestamp - ToleranceMs
                        /\ r.played_at <= timestamp + ToleranceMs

\* hasNearbyApiPlay: a failed query answers false
hasNearbyApiPlay(store, timestamp, fails) ==
  LET fiveSecondsBefore == timestamp - ToleranceMs
      fiveSecondsAfter == timestamp + ToleranceMs
  IN IF fails THEN FALSE
     ELSE \E r \in store : /\ r.user_id = UserId
                           /\ r.source = "api"
                           /\ r.played_at >= fiveSecondsBefore
                           /\ r.played_at <= fiveSecondsAfter

\* variant of removeFrom in which one removal uses the match up: every later
\* candidate is kept
RECURSIVE removeFromOnce(_, _, _, _, _)
removeFromOnce(store, list, qfail, i, acc) ==
  IF i > Len(list) THEN acc
  ELSE IF list[i].source = "import" /\ acc.removed = 0
          /\ hasNearbyApiPlay(store, list[i].played_at, i \in qfail)
  THEN removeFromOnce(store, list, qfail, i + 1, [acc EXCEPT !.removed = @ + 1])
  ELSE removeFromOnce(store, list, qfail, i + 1, [acc EXCEPT !.cleaned = Append(@, list[i])])

\* variant of removeFrom that puts every candidate to the matcher, whatever
\* its source
RECURSIVE removeFromAnySource(_, _, _, _, _)
removeFromAnySource(store, list, qfail, i, acc) ==
  IF i > Len(list) THEN acc
  ELSE IF hasNearbyApiPlay(store, list[i].played_at, i \in qfail)
  THEN removeFromAnySource(store, list, qfail, i + 1, [acc EXCEPT !.removed = @ + 1])
  ELSE removeFromAnySource(store, list, qfail, i + 1,
                           [acc EXCEPT !.cleaned = Append(@, list[i])])

\* variant of removeFrom that keeps the candidates newest first
RECURSIVE removeFromNewestFirst(_, _, _, _, _)
removeFromNewestFirst(store, list, qfail, i, acc) ==
  IF i > Len(list) THEN acc
  ELSE IF list[i].source # "import"
  THEN removeFromNewestFirst(store, list, qfail, i + 1,
                             [acc EXCEPT !.cleaned = <<list[i]>> \o @])
  ELSE IF hasNearbyApiPlay(store, list[i].played_at, i \in qfail)
  THEN removeFromNewestFirst(store, list, qfail, i + 1, [acc EXCEPT !.removed = @ + 1])
  ELSE removeFromNewestFirst(store, list, qfail, i + 1,
                             [acc EXCEPT !.cleaned = <<list[i]>> \o @])

\* removeDuplicateImportPlays, from element i on; qfail holds the positions
\* whose query fails
RECURSIVE removeFrom(_, _, _, _, _)
removeFrom(store, list, qfail, i, acc) ==
  IF i > Len(list) THEN acc
  ELSE IF list[i].source # "import"
  THEN removeFrom(store, list, qfail, i + 1, [acc EXCEPT !.cleaned = Append(@, list[i])])
  ELSE IF hasNearbyApiPlay(store, list[i].played_at, i \in qfail)
  THEN removeFrom(store, list, qfail, i + 1, [acc EXCEPT !.removed = @ + 1])
  ELSE removeFrom(store, list, qfail, i + 1, [acc EXCEPT !.cleaned = Append(@, list[i])])

removeDuplicateImportPlays(store, list, qfail) ==
  removeFrom(store, list, qfail, 1, [cleaned |-> <<>>, removed |-> 0])

\* filterNewPlays
filterNewPlays(store, newPlays, qfail) ==
  removeDuplicateImportPlays(store, newPlays, qfail).cleaned

\* the rows a query returns ORDER BY played_at ASC (rows of equal played_at
\* are taken by id: the code looks at each row by itself, so their order
\* among themselves changes no result)
RECURSIVE OrderByPlayedAt(_)
OrderByPlayedAt(rows) ==
  IF rows = {} THEN <<>>
  ELSE LET first == CHOOSE r \in rows : \A q \in rows :
                       \/ r.played_at < q.played_at
                       \/ r.played_at = q.played_at /\ r.id <= q.id
       IN <<first>> \o OrderByPlayedAt(rows \ {first})

SeqToSet(q) == {q[i] : i \in 1..Len(q)}

\* variant of idsToRemove that takes the position in the list for the id
idsToRemoveByIndex(importPlays, cleaned) ==
  {k \in 1..Len(importPlays) : importPlays[k] \notin SeqToSet(cleaned)}

\* variant of idsToRemove that goes by position: as many rows as were removed,
\* from the head of the loaded list
idsToRemoveFromHead(importPlays, cleaned) ==
  {importPlays[k].id : k \in 1..(Len(importPlays) - Len(cleaned))}

\* the ids handed to the batched delete
idsToRemove(importPlays, cleaned) ==
  {importPlays[i].id : i \in {k \in 1..Len(importPlays) : importPlays[k] \notin SeqToSet(cleaned)}}

\* variant of deleteByIds that deletes nothing
deleteByIdsNothing(store, ids) == store

\* .delete().in('id', idsToRemove): one statement, all of it or (failed) none
deleteByIds(store, ids) == {r \in store : r.id \notin ids}

\* cleanExistingImportPlays: the new table and what the call returned
\* (completed = FALSE: it threw)
cleanExistingImportPlays(store, fetchFail, qfail, deleteFail) ==
  LET importPlays == OrderByPlayedAt({r \in store : r.user_id = UserId /\ r.source = "import"})
      f == removeDuplicateImportPlays(store, importPlays, qfail)
      ids == idsToRemove(importPlays, f.cleaned)
      none == [plays |-> store, completed |-> FALSE, result |-> [total |-> 0, removed |-> 0],
               qfailed |-> {}, ids |-> {}]
  IN IF fetchFail THEN none
     ELSE IF Len(importPlays) = 0
     THEN [none EXCEPT !.completed = TRUE]
     ELSE LET qf == {importPlays[i].id : i \in qfail \cap (1..Len(importPlays))}
          IN IF f.removed > 0 /\ deleteFail
             THEN [none EXCEPT !.qfailed = qf, !.ids = ids]
             ELSE [plays |-> IF f.removed > 0 THEN deleteByIds(store, ids) ELSE store,
                   completed |-> TRUE,
                   result |-> [total |-> Len(importPlays), removed |-> f.removed,
                               remaining |-> Len(f.cleaned)],
                   qfailed |-> qf,
                   ids |-> IF f.removed > 0 THEN ids ELSE {}]

\* getDataSourceStats: the counts by source, or the error it rethrows
getDataSourceStats(store, fails) ==
  IF fails THEN [threw |-> TRUE, stats |-> [total |-> 0, api |-> 0, import |-> 0]]
  ELSE LET mine == {r \in store : r.user_id = UserId}
       IN [threw |-> FALSE,
           stats |-> [total |-> Cardinality(mine),
                      api |-> Cardinality({r \in mine : r.source = "api"}),
                      import |-> Cardinality({r \in mine : r.source = "import"})]]

\* The catch block of runDeduplication reads startTime, a const of the try
\* block that is out of scope there: building the failure result throws a
\* ReferenceError, and the call rejects with it.
DedupCaught(store, clean) ==
  [plays |-> store, rejected |-> TRUE, error |-> "startTime is not defined",
   result |-> [success |-> FALSE], clean |-> clean]

\* runDeduplication; statsFail = 1, 2: the first, the second stats query fails
runDeduplication(store, statsFail, fetchFail, qfail, deleteFail) ==
  LET initial == getDataSourceStats(store, statsFail = 1)
      clean == cleanExistingImportPlays(store, fetchFail, qfail, deleteFail)
      final == getDataSourceStats(clean.plays, statsFail = 2)
      notRun == [plays |-> store, completed |-> FALSE,
                 result |-> [total |-> 0, removed |-> 0], qfailed |-> {}, ids |-> {}]
  IN IF initial.threw THEN DedupCaught(store, notRun)
     ELSE IF ~clean.completed THEN DedupCaught(clean.plays, clean)
     ELSE IF final.threw THEN DedupCaught(clean.plays, clean)
     ELSE [plays |-> clean.plays, rejected |-> FALSE, error |-> "none",
           result |-> [success |-> TRUE, initialStats |-> initial.stats,
                       finalStats |-> final.stats, cleanResult |-> clean.result,
                       removedDuplicates |-> clean.result.removed],
           clean |-> clean]

\* POST /api/deduplication/run: the response for an outcome of runDeduplication
DeduplicationResponse(out) ==
  IF out.rejected
  THEN [status |-> 500, message |-> out.error, error |-> "Internal server error"]
  ELSE IF out.result.success
  THEN [status |-> 200, message |-> "Deduplication completed successfully", error |-> "none"]
  ELSE [status |-> 500, message |-> "Deduplication failed", error |-> out.result.error]

(***************************************************************************)
(* Inputs.                                                                 *)
(***************************************************************************)
\* all sequences over S of length at most n
RECURSIVE SeqsUpTo(_, _)
SeqsUpTo(S, n) ==
  IF n = 0 THEN {<<>>}
  ELSE LET shorter == SeqsUpTo(S, n - 1)
       IN shorter \cup {Append(q, x) : q \in shorter, x \in S}

Song == <<"S">>
Artist == <<"A">>

\* "2023-12-27 00:01" and "2023-12-27 00:02": 60000 ms and 120000 ms
EndTimeA == <<"2","0","2","3","-","1","2","-","2","7"," ","0","0",":","0","1">>
EndTimeB == <<"2","0","2","3","-","1","2","-","2","7"," ","0","0",":","0","2">>
\* a timestamp without its time part
EndTimeBad == <<"2","0","2","3","-","1","2","-","2","7">>

Record(endTime, ms) ==
  [endTime |-> Str(endTime), trackName |-> Str(Song), artistName |-> Str(Artist),
   msPlayed |-> Num(ms)]

RecordA == Record(EndTimeA, <<"1","0","0","0">>)
RecordB == Record(EndTimeB, <<"1","0","0","0">>)
RecordZero == Record(EndTimeB, <<"0">>)
RecordBadTime == Record(EndTimeBad, <<"1","0","0","0">>)
\* a record without msPlayed
RecordNoMs ==
  [endTime |-> Str(EndTimeA), trackName |-> Str(Song), artistName |-> Str(Artist)]

RecordNoMsB ==
  [endTime |-> Str(EndTimeB), trackName |-> Str(Song), artistName |-> Str(Artist)]
\* msPlayed is a text that is no number
RecordNonNumeric ==
  [endTime |-> Str(EndTimeB), trackName |-> Str(Song), artistName |-> Str(Artist),
   msPlayed |-> Str(<<"x">>)]
\* the track name is the empty string
RecordNoName ==
  [endTime |-> Str(EndTimeA), trackName |-> Str(<<>>), artistName |-> Str(Artist),
   msPlayed |-> Num(<<"1","0","0","0">>)]

\* k copies of x
Rep(x, k) == [i \in 1..k |-> x]

\* the parsed content of an upload: JSON arrays of records (up to MaxRecords
\* copies of one record; three records, the middle one of zero duration;
\* records that all come to zero duration; a record without msPlayed; a
\* record with an empty track name), and a JSON value that is no array
Files ==
  {[isArray |-> TRUE, items |-> Rep(RecordA, k)] : k \in 0..MaxRecords}
  \cup {[isArray |-> TRUE, items |-> <<RecordA, RecordZero, RecordB>>],
        [isArray |-> TRUE, items |-> <<RecordZero, RecordNoMsB, RecordNonNumeric>>],
        [isArray |-> TRUE, items |-> <<RecordNoMs>>],
        [isArray |-> TRUE, items |-> <<RecordNoName>>],
        [isArray |-> FALSE, items |-> <<>>]}

\* the track name is a number: toLowerCase of it throws
RecordNumberName ==
  [endTime |-> Str(EndTimeA), trackName |-> Num(<<"7">>), artistName |-> Str(Artist),
   msPlayed |-> Num(<<"1","0","0","0">>)]

\* files that mix good records with records that fail in the transform
TransformRecords == {RecordA, RecordB, RecordZero, RecordBadTime, RecordNumberName}

TransformFiles ==
  {[isArray |-> TRUE, items |-> q] : q \in SeqsUpTo(TransformRecords, MaxTransformLen) \ {<<>>}}

\* parseStreamingHistory of every file, computed once
Parsed == [d \in Files \cup TransformFiles |-> parseStreamingHistory(d.items)]

Filenames ==
  {[prefix |-> "StreamingHistory", mid |-> "0", suffix |-> ".json"],
   [prefix |-> "StreamingHistory", mid |-> "1", suffix |-> ".json"],
   [prefix |-> "History", mid |-> "0", suffix |-> ".json"]}

\* played_at of the items the recently-played endpoint returns: 5000 ms and
\* 5001 ms before and after 00:01:00.000
LiveTimes == {54999, 55000, 65000, 65001}

SpotifyTrackId == <<"s","p","1">>

LiveItems ==
  {[hasTrack |-> TRUE, hasPlayedAt |-> TRUE, track_id |-> SpotifyTrackId,
    track_name |-> Song, artist |-> Artist, duration_ms |-> 1000, played_at |-> t]
     : t \in LiveTimes}
  \* a local file: the track has no Spotify id
  \cup {[hasTrack |-> TRUE, hasPlayedAt |-> TRUE, track_id |-> NullId,
         track_name |-> Song, artist |-> Artist, duration_ms |-> 1000, played_at |-> 65000]}
  \* an item without a track
  \cup {[hasTrack |-> FALSE, hasPlayedAt |-> TRUE, track_id |-> NullId,
         track_name |-> <<>>, artist |-> <<>>, duration_ms |-> 0, played_at |-> 0]}

(***************************************************************************)
(* SpotifyHistoryImporter: the store calls and the import itself.          *)
(***************************************************************************)
\* checkDuplicateUpload: .single() gives the row when exactly one matches;
\* no row, several rows and a failed query all end in "false"
checkDuplicateUpload(ups, filename, fileHash, fails) ==
  LET found == {u \in ups : u.filename = filename /\ u.file_hash = fileHash}
  IN IF fails THEN FALSE ELSE Cardinality(found) = 1

\* recordUpload: the insert is refused by UNIQUE(user_id, file_hash) or fails
\* with the store; either way the error is only logged
recordUpload(ups, filename, fileHash, totalPlays, insertedPlays, fails) ==
  IF fails \/ \E u \in ups : u.user_id = UserId /\ u.file_hash = fileHash
  THEN ups
  ELSE ups \cup {[filename |-> filename, file_hash |-> fileHash, user_id |-> UserId,
                  total_plays |-> totalPlays, inserted_plays |-> insertedPlays]}

\* variant of batchFrom that gives up at the first batch that fails
RECURSIVE batchFromUntilFailure(_, _, _, _, _)
batchFromUntilFailure(list, batchSize, bfail, i, acc) ==
  IF i >= Len(list) THEN acc
  ELSE LET batch == SubSeq(list, i + 1, Min(i + batchSize, Len(list)))
       IN IF i \in bfail \/ Upsert(acc.st, batch).error
          THEN [acc EXCEPT !.errors = Append(@, i)]
          ELSE batchFromUntilFailure(list, batchSize, bfail, i + batchSize,
                                     [acc EXCEPT !.st = Upsert(@, batch),
                                                 !.inserted = @ + Len(batch)])

\* batchInsertPlays, from offset i on; bfail holds the offsets of the batches
\* whose upsert fails.  acc = [st, inserted, errors]
RECURSIVE batchFrom(_, _, _, _, _)
batchFrom(list, batchSize, bfail, i, acc) ==
  IF i >= Len(list) THEN acc
  ELSE LET batch == SubSeq(list, i + 1, Min(i + batchSize, Len(list)))
       IN CHOOSE out \in
            {batchFrom(list, batchSize, bfail, i + batchSize, next) :
               next \in {IF i \in bfail \/ Upsert(acc.st, batch).error
                         THEN [acc EXCEPT !.errors = Append(@, i)]
                         ELSE [acc EXCEPT !.st = Upsert(@, batch),
                                          !.inserted = @ + Len(batch)]}} : TRUE

batchInsertPlays(st, list, bfail) ==
  batchFrom(list, BatchSize, bfail, 0, [st |-> st, inserted |-> 0, errors |-> <<>>])

\* the offsets at which batchInsertPlays starts a batch
BatchOffsets(n) == {i \in 0..n : i < n /\ i % BatchSize = 0}

\* variant of Abort that records the failed attempt as an upload
AbortRecorded(st, ups, filename, fileHash, message, cands) ==
  [st |-> st,
   uploads |-> recordUpload(ups, filename, fileHash, Len(cands), 0, FALSE),
   result |-> [success |-> FALSE, filename |-> filename, error |-> message],
   cands |-> cands, kept |-> <<>>]

\* the catch block of importStreamingHistory: the failure result, nothing written
Abort(st, ups, filename, fileHash, message, cands) ==
  [st |-> st, uploads |-> ups,
   result |-> [success |-> FALSE, filename |-> filename, error |-> message],
   cands |-> cands, kept |-> <<>>]

DuplicateUpload == "This file has already been uploaded."
NoValidPlays == "No valid plays found in file."
AllDuplicates == "All plays were filtered out as duplicates of existing API data."

\* variant of importInserted that records the upload only when every batch
\* was stored
importInsertedRecordingCleanOnly(ups, filename, fileHash, parsed, filteredPlays, ins, recFail) ==
  [st |-> ins.st,
   uploads |-> IF Len(ins.errors) > 0
               THEN ups
               ELSE recordUpload(ups, filename, fileHash, Len(parsed.plays), ins.inserted,
                                 recFail),
   result |-> [success |-> TRUE,
               filename |-> filename,
               totalPlays |-> Len(parsed.plays),
               insertedPlays |-> ins.inserted,
               duplicates |-> Len(parsed.plays) - ins.inserted,
               parseErrors |-> Len(parsed.errors),
               insertErrors |-> Len(ins.errors)],
   cands |-> parsed.plays,
   kept |-> filteredPlays]

\* importStreamingHistory, after the batches were attempted: the upload is
\* recorded and the success result built
importInserted(ups, filename, fileHash, parsed, filteredPlays, ins, recFail) ==
  [st |-> ins.st,
   uploads |-> recordUpload(ups, filename, fileHash, Len(parsed.plays), ins.inserted, recFail),
   result |-> [success |-> TRUE,
               filename |-> filename,
               totalPlays |-> Len(parsed.plays),
               insertedPlays |-> ins.inserted,
               duplicates |-> Len(parsed.plays) - ins.inserted,
               parseErrors |-> Len(parsed.errors),
               insertErrors |-> Len(ins.errors)],
   cands |-> parsed.plays,
   kept |-> filteredPlays]

\* importStreamingHistory, after the filter
importFiltered(st, ups, filename, fileHash, parsed, filteredPlays, bfail, recFail) ==
  IF Len(filteredPlays) = 0
  THEN Abort(st, ups, filename, fileHash, AllDuplicates, parsed.plays)
  ELSE CHOOSE out \in {importInserted(ups, filename, fileHash, parsed, filteredPlays,
                                      ins, recFail) :
                         ins \in {batchInsertPlays(st, filteredPlays, bfail)}} : TRUE

\* importStreamingHistory, after the transform
importParsed(st, ups, filename, fileHash, parsed, qfail, bfail, recFail) ==
  IF Len(parsed.plays) = 0
  THEN Abort(st, ups, filename, fileHash, NoValidPlays, <<>>)
  ELSE CHOOSE out \in {importFiltered(st, ups, filename, fileHash, parsed,
                                      filteredPlays, bfail, recFail) :
                         filteredPlays \in {filterNewPlays(st.plays, parsed.plays, qfail)}} :
         TRUE

\* importStreamingHistory: the tables after the call, its result, and what it
\* went through (cands: the parsed plays, kept: the filtered plays)
importStreamingHistory(st, ups, filename, data, dupFail, qfail, bfail, recFail) ==
  IF checkDuplicateUpload(ups, filename, FileHash(data), dupFail)
  THEN Abort(st, ups, filename, FileHash(data), DuplicateUpload, <<>>)
  ELSE IF validateFile(filename, data) # "ok"
  THEN Abort(st, ups, filename, FileHash(data), validateFile(filename, data), <<>>)
  ELSE importParsed(st, ups, filename, FileHash(data), Parsed[data], qfail, bfail, recFail)

(***************************************************************************)
(* SpotifyTracker.fetchAndStorePlays: one upsert per fetched item; ufail   *)
(* holds the positions whose upsert fails.  The playData it builds has no  *)
(* source, so the row gets the column default of the deployed schema.      *)
(***************************************************************************)
\* the playData object built for one fetched item, with the source the table
\* gives it
playData(play, default) ==
  [user_id |-> UserId,
   track_id |-> play.track_id,
   track_name |-> play.track_name,
   artist |-> play.artist,
   duration_ms |-> play.duration_ms,
   played_at |-> play.played_at,
   source |-> default]

RECURSIVE storeFrom(_, _, _, _, _)
storeFrom(items, ufail, default, i, acc) ==
  IF i > Len(items) THEN acc
  ELSE LET play == items[i]
       IN IF ~play.hasTrack \/ ~play.hasPlayedAt
          THEN storeFrom(items, ufail, default, i + 1, acc)
          ELSE IF i \in ufail \/ Upsert(acc.st, <<playData(play, default)>>).error
          THEN storeFrom(items, ufail, default, i + 1, acc)
          ELSE storeFrom(items, ufail, default, i + 1,
                         [acc EXCEPT !.st = Upsert(@, <<playData(play, default)>>),
                                     !.newPlays = @ + 1])

fetchAndStorePlays(st, items, ufail, default) ==
  storeFrom(items, ufail, default, 1, [st |-> st, newPlays |-> 0])

(***************************************************************************)
(* State and actions.  last is what the latest call did.                   *)
(***************************************************************************)
Bit(b) == IF b THEN 1 ELSE 0

\* the table as a handler finds it
Store == [plays |-> plays, nextId |-> nextId, error |-> FALSE]

Init ==
  /\ plays = {}
  /\ uploads = {}
  /\ nextId = 1
  /\ sourceDefault \in {"api", "import"}
  /\ faults = 0
  /\ last = [op |-> "none"]

\* one run of the tracker (cron or manual sync)
Sync ==
  \E items \in SeqsUpTo(LiveItems, MaxSyncItems) :
    \E fetchFail \in BOOLEAN, ufail \in SUBSET (1..Len(items)) :
      /\ fetchFail => ufail = {}
      /\ \A i \in ufail : items[i].hasTrack /\ items[i].hasPlayedAt
      /\ faults + Bit(fetchFail) + Cardinality(ufail) <= MaxFaults
      /\ \E out \in {fetchAndStorePlays(Store, items, ufail, sourceDefault)} :
         /\ faults' = faults + Bit(fetchFail) + Cardinality(ufail)
         /\ IF fetchFail
            THEN /\ last' = [op |-> "sync", threw |-> TRUE]
                 /\ UNCHANGED <<plays, uploads, nextId, sourceDefault>>
            ELSE /\ out.st.nextId <= MaxId + 1
                 /\ plays' = out.st.plays
                 /\ nextId' = out.st.nextId
                 /\ last' = [op |-> "sync", threw |-> FALSE,
                             result |-> [totalFetched |-> Len(items),
                                         newPlays |-> out.newPlays],
                             \* the rows the run added
                             added |-> {r.id : r \in out.st.plays \ plays}]
                 /\ UNCHANGED <<uploads, sourceDefault>>

\* the number of store calls that fail in one import
ImportFaults(dupFail, qfail, bfail, recFail) ==
  Bit(dupFail) + Cardinality(qfail) + Cardinality(bfail) + Bit(recFail)

\* the effect of an import whose outcome is out
ImportEffect(out, filename, data, dupFail, qfail, bfail, recFail) ==
  \* only calls that are made can fail
  /\ qfail \subseteq 1..Len(out.cands)
  /\ bfail \subseteq BatchOffsets(Len(out.kept))
  /\ recFail => out.result.success
  /\ out.st.nextId <= MaxId + 1
  /\ Cardinality(out.uploads) <= MaxUploads
  /\ plays' = out.st.plays
  /\ nextId' = out.st.nextId
  /\ uploads' = out.uploads
  /\ faults' = faults + ImportFaults(dupFail, qfail, bfail, recFail)
  /\ last' = [op |-> "import", result |-> out.result,
              cands |-> out.cands, kept |-> out.kept,
              dupFailed |-> dupFail, qfailed |-> qfail, bfailed |-> bfail,
              recFailed |-> recFail,
              \* the content of a successful import, for the next call to compare
              file_hash |-> IF out.result.success THEN FileHash(data) ELSE <<>>,
              \* the call before was a successful import of the same content
              again |-> /\ last.op = "import"
                        /\ last.result.success
                        /\ last.file_hash = FileHash(data),
              \* an upload of this user with this content was on record
              hadRecord |-> \E u \in uploads : /\ u.user_id = UserId
                                               /\ u.file_hash = FileHash(data),
              \* the call wrote to the store
              wrote |-> plays # out.st.plays \/ uploads # out.uploads,
              \* the play rows and the upload records the call added
              added |-> Cardinality(out.st.plays \ plays),
              recorded |-> out.uploads \ uploads,
              \* the result of the same call when recordUpload does not fail
              ifRecorded |-> IF recFail
                             THEN importStreamingHistory(Store, uploads, filename, data,
                                                         dupFail, qfail, bfail, FALSE).result
                             ELSE out.result]
  /\ UNCHANGED sourceDefault

\* the candidates a file can yield at most
MaxCands(data) == IF data.isArray THEN Len(data.items) ELSE 0

\* POST /api/import/spotify-history with a parsed file
Import ==
  \E filename \in Filenames, data \in Files :
    \E dupFail \in BOOLEAN, qfail \in SUBSET (1..MaxCands(data)),
       bfail \in SUBSET BatchOffsets(MaxCands(data)), recFail \in BOOLEAN :
      /\ faults + ImportFaults(dupFail, qfail, bfail, recFail) <= MaxFaults
      /\ \E out \in {importStreamingHistory(Store, uploads, filename, data,
                                              dupFail, qfail, bfail, recFail)} :
           ImportEffect(out, filename, data, dupFail, qfail, bfail, recFail)

\* cleanExistingImportPlays, as run by the deduplication endpoint
Reconcile ==
  \E fetchFail \in BOOLEAN, deleteFail \in BOOLEAN,
     qfail \in SUBSET (1..Cardinality({r \in plays : r.source = "import"})) :
    /\ faults + Bit(fetchFail) + Cardinality(qfail) + Bit(deleteFail) <= MaxFaults
    /\ \E out \in {cleanExistingImportPlays(plays, fetchFail, qfail, deleteFail)} :
          \* only calls that are made can fail
          /\ fetchFail => qfail = {}
          /\ deleteFail => ~out.completed /\ ~fetchFail
          /\ plays' = out.plays
          /\ faults' = faults + Bit(fetchFail) + Cardinality(qfail) + Bit(deleteFail)
          /\ last' = [op |-> "reconcile", completed |-> out.completed,
                      result |-> out.result, qfailed |-> out.qfailed, ids |-> out.ids,
                      deleted |-> {r.id : r \in plays \ out.plays},
                      \* the call before, when it was a run of this operation
                      prev |-> IF last.op = "reconcile"
                               THEN [completed |-> last.completed,
                                     clean |-> last.completed /\ last.qfailed = {},
                                     removed |-> last.result.removed]
                               ELSE [completed |-> FALSE, clean |-> FALSE, removed |-> 0]]
          /\ UNCHANGED <<uploads, nextId, sourceDefault>>

Next == Sync \/ Import \/ Reconcile

Spec == Init /\ [][Next]_vars

(***************************************************************************)
(* One import and one run of the tracker side by side.  Each handler is    *)
(* taken apart at its awaits: between two store calls of one the other may *)
(* run.  last holds where each of the two stands:                          *)
(*   imp = [pc, filename, data, cands, kept, i, inserted, errors, result]  *)
(*   syn = [pc, items, i, newPlays]                                        *)
(* and mixed tells that a call of one was made in the middle of the other. *)
(***************************************************************************)
\* the files and the fetched items of the two invocations
ConcurrentFiles ==
  {[isArray |-> TRUE, items |-> Rep(RecordA, k)] : k \in 1..MaxRecords}
  \cup {[isArray |-> TRUE, items |-> <<RecordA, RecordZero, RecordB>>],
        [isArray |-> TRUE, items |-> <<RecordNoName>>]}

ConcurrentItems == SeqsUpTo(LiveItems, MaxConcurrentItems)

ImportName == [prefix |-> "StreamingHistory", mid |-> "0", suffix |-> ".json"]

InitConcurrent ==
  /\ plays = {}
  /\ uploads = {}
  /\ nextId = 1
  /\ sourceDefault \in {"api", "import"}
  /\ faults = 0
  /\ \E data \in ConcurrentFiles :
       last = [op |-> "concurrent",
               imp |-> [pc |-> "check", filename |-> ImportName, data |-> data,
                        cands |-> <<>>, kept |-> <<>>, i |-> 0, inserted |-> 0,
                        errors |-> 0, result |-> "none"],
               syn |-> [pc |-> "fetch", items |-> <<>>, i |-> 0, newPlays |-> 0],
               mixed |-> FALSE]

\* an invocation that has made a call and has not returned
Underway(p) == p.pc \notin {"check", "fetch", "done"}

\* the import has returned with a failure
ImportAborted(imp, message) ==
  [imp EXCEPT !.pc = "done", !.result = message]

\* importStreamingHistory up to the filter: the duplicate check, validateFile
\* and parseStreamingHistory
ImportCheck ==
  /\ last.op = "concurrent"
  /\ last.imp.pc = "check"
  /\ \E fails \in BOOLEAN :
       LET imp == last.imp
           parsed == Parsed[imp.data]
       IN /\ faults + Bit(fails) <= MaxFaults
          /\ faults' = faults + Bit(fails)
          /\ last' = [last EXCEPT
               !.imp = IF checkDuplicateUpload(uploads, imp.filename,
                                               FileHash(imp.data), fails)
                       THEN ImportAborted(imp, DuplicateUpload)
                       ELSE IF validateFile(imp.filename, imp.data) # "ok"
                       THEN ImportAborted(imp, validateFile(imp.filename, imp.data))
                       ELSE IF Len(parsed.plays) = 0
                       THEN ImportAborted(imp, NoValidPlays)
                       ELSE [imp EXCEPT !.pc = "filter", !.cands = parsed.plays, !.i = 1],
               !.mixed = @ \/ Underway(last.syn)]
          /\ UNCHANGED <<plays, uploads, nextId, sourceDefault>>

\* one turn of the loop of removeDuplicateImportPlays: the query for candidate i
ImportFilter ==
  /\ last.op = "concurrent"
  /\ last.imp.pc = "filter"
  /\ \E fails \in BOOLEAN :
       LET imp == last.imp
           play == imp.cands[imp.i]
           kept == IF play.source = "import"
                      /\ hasNearbyApiPlay(plays, play.played_at, fails)
                   THEN imp.kept ELSE Append(imp.kept, play)
       IN /\ faults + Bit(fails) <= MaxFaults
          /\ faults' = faults + Bit(fails)
          /\ last' = [last EXCEPT
               !.imp = IF imp.i < Len(imp.cands)
                       THEN [imp EXCEPT !.kept = kept, !.i = @ + 1]
                       ELSE IF Len(kept) = 0
                       THEN ImportAborted([imp EXCEPT !.kept = kept], AllDuplicates)
                       ELSE [imp EXCEPT !.pc = "insert", !.kept = kept, !.i = 0],
               !.mixed = @ \/ Underway(last.syn)]
          /\ UNCHANGED <<plays, uploads, nextId, sourceDefault>>

\* one turn of the loop of batchInsertPlays: the upsert of the batch at offset i
ImportInsert ==
  /\ last.op = "concurrent"
  /\ last.imp.pc = "insert"
  /\ \E fails \in BOOLEAN :
       LET imp == last.imp
           batch == SubSeq(imp.kept, imp.i + 1, Min(imp.i + BatchSize, Len(imp.kept)))
           done == Upsert(Store, batch)
           failed == fails \/ done.error
       IN /\ faults + Bit(fails) <= MaxFaults
          /\ faults' = faults + Bit(fails)
          /\ plays' = IF failed THEN plays ELSE done.plays
          /\ nextId' = IF failed THEN nextId ELSE done.nextId
          /\ last' = [last EXCEPT
               !.imp = [imp EXCEPT
                          !.pc = IF imp.i + BatchSize >= Len(imp.kept)
                                 THEN "record" ELSE "insert",
                          !.i = @ + BatchSize,
                          !.inserted = IF failed THEN @ ELSE @ + Len(batch),
                          !.errors = IF failed THEN @ + 1 ELSE @],
               !.mixed = @ \/ Underway(last.syn)]
          /\ UNCHANGED <<uploads, sourceDefault>>

\* variant of ImportRecord in which the upload record is written as soon as
\* the filter has finished, before the batches
ImportRecordBeforeInsert ==
  /\ last.op = "concurrent"
  /\ last.imp.pc \in {"insert", "record"}
  /\ \E fails \in BOOLEAN :
       LET imp == last.imp
       IN /\ faults + Bit(fails) <= MaxFaults
          /\ faults' = faults + Bit(fails)
          /\ uploads' = recordUpload(uploads, imp.filename, FileHash(imp.data),
                                     Len(imp.cands), imp.inserted, fails)
          /\ last' = [last EXCEPT
               !.imp = [imp EXCEPT !.pc = "done", !.result = "success"],
               !.mixed = @ \/ Underway(last.syn)]
          /\ UNCHANGED <<plays, nextId, sourceDefault>>

\* recordUpload and the return of the result
ImportRecord ==
  /\ last.op = "concurrent"
  /\ last.imp.pc = "record"
  /\ \E fails \in BOOLEAN :
       LET imp == last.imp
       IN /\ faults + Bit(fails) <= MaxFaults
          /\ faults' = faults + Bit(fails)
          /\ uploads' = recordUpload(uploads, imp.filename, FileHash(imp.data),
                                     Len(imp.cands), imp.inserted, fails)
          /\ last' = [last EXCEPT
               !.imp = [imp EXCEPT !.pc = "done", !.result = "success"],
               !.mixed = @ \/ Underway(last.syn)]
          /\ UNCHANGED <<plays, nextId, sourceDefault>>

\* fetchAndStorePlays: getRecentlyPlayed
SyncFetch ==
  /\ last.op = "concurrent"
  /\ last.syn.pc = "fetch"
  /\ \E items \in ConcurrentItems, fails \in BOOLEAN :
       /\ faults + Bit(fails) <= MaxFaults
       /\ fails => items = <<>>
       /\ faults' = faults + Bit(fails)
       /\ last' = [last EXCEPT
            !.syn = IF fails \/ Len(items) = 0
                    THEN [@ EXCEPT !.pc = "done"]
                    ELSE [@ EXCEPT !.pc = "store", !.items = items, !.i = 1],
            !.mixed = @ \/ Underway(last.imp)]
       /\ UNCHANGED <<plays, uploads, nextId, sourceDefault>>

\* one turn of the loop of fetchAndStorePlays: the upsert of item i
SyncStore ==
  /\ last.op = "concurrent"
  /\ last.syn.pc = "store"
  /\ \E fails \in BOOLEAN :
       LET syn == last.syn
           play == syn.items[syn.i]
           skipped == ~play.hasTrack \/ ~play.hasPlayedAt
           done == Upsert(Store, <<playData(play, sourceDefault)>>)
           failed == fails \/ done.error
       IN /\ faults + Bit(fails) <= MaxFaults
          /\ fails => ~skipped
          /\ faults' = faults + Bit(fails)
          /\ plays' = IF skipped \/ failed THEN plays ELSE done.plays
          /\ nextId' = IF skipped \/ failed THEN nextId ELSE done.nextId
          /\ last' = [last EXCEPT
               !.syn = [syn EXCEPT
                          !.pc = IF syn.i < Len(syn.items) THEN "store" ELSE "done",
                          !.i = @ + 1,
                          !.newPlays = IF skipped \/ failed THEN @ ELSE @ + 1],
               !.mixed = @ \/ Underway(last.imp)]
          /\ UNCHANGED <<uploads, sourceDefault>>

ImportSteps == ImportCheck \/ ImportFilter \/ ImportInsert \/ ImportRecord

SyncSteps == SyncFetch \/ SyncStore

NextConcurrent ==
  \/ ImportCheck \/ ImportFilter \/ ImportInsert \/ ImportRecord
  \/ SyncFetch \/ SyncStore

\* each invocation goes on whenever it can: there is no lock to wait for
SpecConcurrent ==
  /\ InitConcurrent
  /\ [][NextConcurrent]_vars
  /\ WF_vars(ImportSteps)
  /\ WF_vars(SyncSteps)

(***************************************************************************)
(* batchInsertPlays by itself, on lists long enough to need several        *)
(* batches: candidate k of a list is a play of its own minute.             *)
(***************************************************************************)
Candidate(k) ==
  [user_id |-> UserId, track_id |-> <<"#", "s", "|", "a">>, track_name |-> Song,
   artist |-> Artist, duration_ms |-> 1000, played_at |-> 60000 * k,
   source |-> "import"]

Candidates(n) == [k \in 1..n |-> Candidate(k)]

\* lengths around the multiples of the batch size
BatchLengths ==
  {n \in 1..(MaxBatches * BatchSize + 1) :
     \E k \in 0..MaxBatches : n \in {k * BatchSize - 1, k * BatchSize, k * BatchSize + 1}}

InitBatch ==
  /\ plays = {}
  /\ uploads = {}
  /\ nextId = 1
  /\ sourceDefault \in {"api", "import"}
  /\ faults = 0
  /\ last = [op |-> "batch", calls |-> 0]

\* one call of batchInsertPlays; any of its upserts may fail
BatchInsert ==
  /\ last.op = "batch"
  /\ last.calls < MaxBatchCalls
  /\ \E n \in BatchLengths :
       \E bfail \in SUBSET BatchOffsets(n) :
         \E out \in {batchInsertPlays(st, list, bfail) :
                       st \in {Store}, list \in {Candidates(n)}} :
            /\ plays' = out.st.plays
            /\ nextId' = out.st.nextId
            /\ last' = [op |-> "batch", calls |-> last.calls + 1,
                        n |-> n, bfailed |-> bfail,
                        inserted |-> out.inserted, errors |-> out.errors,
                        \* the candidates that were stored before the call
                        had |-> {k \in 1..n : \E r \in plays :
                                                r.played_at = Candidate(k).played_at}]
            /\ UNCHANGED <<uploads, sourceDefault, faults>>

NextBatch == BatchInsert

SpecBatch == InitBatch /\ [][NextBatch]_vars

-----------------------------------------------------------------------------
(***************************************************************************)
(* removeDuplicateImportPlays by itself, on lists that mix candidates of   *)
(* the import with plays of other sources, against a store of live and     *)
(* imported rows.  The call reads the store and writes nothing.            *)
(***************************************************************************)
\* a play of the given source at the given instant
PlayOf(source, playedAt) ==
  [user_id |-> UserId, track_id |-> <<"#", "s", "|", "a">>, track_name |-> Song,
   artist |-> Artist, duration_ms |-> 1000, played_at |-> playedAt,
   source |-> source]

\* imported candidates on a live row's instant, at the edge of its window and
\* just outside it; a live play and a play of no source on that instant
FilterCandidates ==
  {PlayOf("import", 60000), PlayOf("import", 65000), PlayOf("import", 65001),
   PlayOf("api", 60000), PlayOf("none", 60000)}

FilterLists == SeqsUpTo(FilterCandidates, MaxFilterLen)

\* a stored row
RowOf(id, source, playedAt) ==
  [id |-> id, user_id |-> UserId, track_id |-> <<"#", "s", "|", "a">>,
   track_name |-> Song, artist |-> Artist, duration_ms |-> 1000,
   played_at |-> playedAt, source |-> source]

FilterStores ==
  SUBSET {RowOf(1, "api", 60000), RowOf(2, "import", 65001)}

InitFilter ==
  /\ plays \in FilterStores
  /\ uploads = {}
  /\ nextId = 3
  /\ sourceDefault = "api"
  /\ faults = 0
  /\ last = [op |-> "filter", called |-> FALSE]

\* one call of removeDuplicateImportPlays; any of its queries may fail
Filter ==
  /\ last.op = "filter"
  /\ \E list \in FilterLists :
       \E qfail \in SUBSET {i \in 1..Len(list) : list[i].source = "import"} :
         \E out \in {removeDuplicateImportPlays(plays, list, qfail)} :
           last' = [op |-> "filter", called |-> TRUE, list |-> list,
                    qfailed |-> qfail, cleaned |-> out.cleaned,
                    removed |-> out.removed]
  /\ UNCHANGED <<plays, uploads, nextId, sourceDefault, faults>>

NextFilter == Filter

SpecFilter == InitFilter /\ [][NextFilter]_vars

-----------------------------------------------------------------------------
(***************************************************************************)
(* The pure helpers of the importer by themselves: convertEndTime on       *)
(* timestamps with components in and out of range, generateTrackId on      *)
(* names in several spellings, parseStreamingHistory on files that mix     *)
(* good and bad records.  None of them touches the store.                  *)
(***************************************************************************)
\* the components a timestamp is put together from: in range, at the edges of
\* their range, past them, and not numbers
Years == {<<"2","0","2","3">>, <<"2","0","2","4">>}
Months == {<<"0","0">>, <<"0","1">>, <<"1","2">>, <<"1","3">>, <<"x","x">>}
Days == {<<"0","0">>, <<"1","0">>, <<"1","5">>, <<"3","1">>, <<"3","2">>}
Hours == {<<"0","0">>, <<"2","3">>, <<"2","4">>}
Minutes == {<<"0","0">>, <<"5","9">>, <<"6","0">>, <<"5","x">>}

\* the date is one the clock of the model can tell (its milliseconds are
\* 32-bit numbers around 2023-12-27), or does not parse at all
InClock(year, month, day) ==
  LET y == ParseIntText(year)
      m == ParseIntText(month)
      d == ParseIntText(day)
  IN (~y.nan /\ ~m.nan /\ ~d.nan) =>
       /\ UTCDay(y.n, m.n - 1, d.n) - EpochDays <= ClockDays
       /\ EpochDays - UTCDay(y.n, m.n - 1, d.n) <= ClockDays

\* "YYYY-MM-DD HH:MM"
EndTimeText(year, month, day, hour, minute) ==
  year \o <<"-">> \o month \o <<"-">> \o day \o <<" ">> \o hour \o <<":">> \o minute

InitTransform ==
  /\ plays = {}
  /\ uploads = {}
  /\ nextId = 1
  /\ sourceDefault \in {"api", "import"}
  /\ faults = 0
  /\ last = [op |-> "none"]

\* convertEndTime on one timestamp
Convert ==
  /\ \E year \in Years, month \in Months, day \in Days, hour \in Hours, minute \in Minutes :
       /\ InClock(year, month, day)
       /\ \E out \in {convertEndTime([endTime |-> Str(EndTimeText(year, month, day,
                                                               hour, minute))])} :
            last' = [op |-> "convert", year |-> year, month |-> month, day |-> day,
                     hour |-> hour, minute |-> minute, ok |-> out.ok, ms |-> out.ms]
  /\ UNCHANGED <<plays, uploads, nextId, sourceDefault, faults>>

\* names in several spellings: capitals, lower case, padded with blanks, blank
\* only, empty, and absent (no v)
Absent == [present |-> FALSE, v |-> <<>>]
Name(s) == [present |-> TRUE, v |-> s]

TrackNames ==
  {Name(<<"S">>), Name(<<"s">>), Name(<<" ","S"," ">>), Name(<<"T">>), Name(<<" ">>),
   Name(<<>>), Absent}
ArtistNames == {Name(<<"A">>), Name(<<"a"," ">>), Absent}

\* the record with the two names
NamedItem(track, artist) ==
  [f \in {g \in {"trackName", "artistName"} :
            IF g = "trackName" THEN track.present ELSE artist.present} |->
     IF f = "trackName" THEN Str(track.v) ELSE Str(artist.v)]

\* generateTrackId on two pairs of names
Identity ==
  /\ \E t1 \in TrackNames, a1 \in ArtistNames, t2 \in TrackNames, a2 \in ArtistNames :
       last' = [op |-> "identity",
                first |-> [track |-> t1, artist |-> a1,
                           id |-> generateTrackId(NamedItem(t1, a1)).id],
                second |-> [track |-> t2, artist |-> a2,
                            id |-> generateTrackId(NamedItem(t2, a2)).id]]
  /\ UNCHANGED <<plays, uploads, nextId, sourceDefault, faults>>

\* an import, with no store call failing, of a file that mixes good and bad
\* records
Transform ==
  \E data \in TransformFiles :
    \E filename \in {f \in Filenames : f.prefix = "StreamingHistory" /\ f.mid = "0"} :
      \E out \in {importStreamingHistory(Store, uploads, filename, data,
                                         FALSE, {}, {}, FALSE)} :
        /\ out.st.nextId <= MaxId + 1
        /\ Cardinality(out.uploads) <= MaxUploads
        /\ plays' = out.st.plays
        /\ nextId' = out.st.nextId
        /\ uploads' = out.uploads
        /\ last' = [op |-> "transform", items |-> data.items, parsed |-> Parsed[data],
                    result |-> out.result,
                    \* an upload was on record before the call
                    hadRecord |-> uploads # {}]
        /\ UNCHANGED <<sourceDefault, faults>>

\* the two helpers that read nothing but their arguments
NextHelpers == Convert \/ Identity

SpecHelpers == InitTransform /\ [][NextHelpers]_vars

NextTransform == Transform

SpecTransform == InitTransform /\ [][NextTransform]_vars

-----------------------------------------------------------------------------
(***************************************************************************)
(* The deduplication endpoint by itself, on stores with several imported   *)
(* rows near to and far from a live row.                                   *)
(***************************************************************************)
\* a live row, and imported rows before and after it, within five seconds of
\* it and further away
ReconcileRows ==
  {RowOf(1, "api", 60000), RowOf(2, "import", 30000), RowOf(3, "import", 56000),
   RowOf(4, "import", 64000), RowOf(5, "import", 65001)}

InitReconcile ==
  /\ plays \in SUBSET ReconcileRows
  /\ uploads = {}
  /\ nextId = 6
  /\ sourceDefault = "api"
  /\ faults = 0
  /\ last = [op |-> "none"]

\* POST /api/deduplication/run; any of its store calls may fail
RunDeduplication ==
  \E statsFail \in 0..2, fetchFail \in BOOLEAN, deleteFail \in BOOLEAN,
     qfail \in SUBSET (1..Cardinality({r \in plays : r.source = "import"})) :
    /\ faults + Bit(statsFail # 0) + Bit(fetchFail) + Cardinality(qfail) + Bit(deleteFail)
         <= MaxFaults
    /\ \E out \in {runDeduplication(plays, statsFail, fetchFail, qfail, deleteFail)} :
          \* only calls that are made can fail
          /\ statsFail = 1 => ~fetchFail /\ qfail = {} /\ ~deleteFail
          /\ fetchFail => qfail = {}
          /\ deleteFail => out.clean.ids # {} /\ ~fetchFail
          /\ statsFail = 2 => out.clean.completed
          /\ plays' = out.plays
          /\ faults' = faults + Bit(statsFail # 0) + Bit(fetchFail) + Cardinality(qfail)
                         + Bit(deleteFail)
          /\ last' = [op |-> "dedup", rejected |-> out.rejected, result |-> out.result,
                      response |-> DeduplicationResponse(out),
                      failed |-> statsFail # 0 \/ fetchFail \/ deleteFail,
                      cleaned |-> out.clean.completed,
                      removed |-> out.clean.result.removed,
                      ids |-> out.clean.ids, qfailed |-> out.clean.qfailed]
          /\ UNCHANGED <<uploads, nextId, sourceDefault>>

NextReconcile == RunDeduplication

SpecReconcile == InitReconcile /\ [][NextReconcile]_vars

\* SpotifyAPI: the access token and the requests to the Web API

\* calls of apiRequest that may be under way at the same time
MaxCallers == 2

maxRetries == 2

Callers == 1..MaxCallers

\* a call starts a refresh at most once in each turn of its loop
MaxRefreshes == (maxRetries + 1) * MaxCallers

NoToken == 0

NoPromise == 0

\* the object after its constructor; unexpired stands for
\* Date.now() < expiresAt - 60000
SpotifyAPI == [accessToken |-> NoToken, unexpired |-> FALSE, tokenPromise |-> NoPromise]

\* the promise of a refreshToken call whose request has not been answered
Pending == [state |-> "pending", token |-> NoToken]

\* a call of apiRequest: its place, its loop counter, the requests it has
\* sent, the promise it waits for, the token it holds, the refresh that was
\* in flight when it last asked for a token and how it got the token, the
\* error it caught last, what it threw and what it returned
NewCaller ==
  [pc |-> "idle", retries |-> 0, attempts |-> 0, promise |-> NoPromise,
   token |-> NoToken, during |-> NoPromise, how |-> "none", error |-> "none",
   thrown |-> "none", data |-> "none"]

\* variant of getAccessToken without the test of tokenPromise
getAccessTokenNoJoin(api) ==
  IF api.spotify.accessToken # NoToken /\ api.spotify.unexpired
  THEN [how |-> "cached", api |-> api, promise |-> NoPromise,
        token |-> api.spotify.accessToken]
  ELSE [how |-> "started",
        api |-> [api EXCEPT !.promises = Append(@, Pending),
                            !.spotify.tokenPromise = Len(api.promises) + 1],
        promise |-> Len(api.promises) + 1, token |-> NoToken]

\* getAccessToken up to its await: the cached token, the promise of the
\* refresh in progress, or the promise of a refresh it starts
getAccessToken(api) ==
  IF api.spotify.accessToken # NoToken /\ api.spotify.unexpired
  THEN [how |-> "cached", api |-> api, promise |-> NoPromise,
        token |-> api.spotify.accessToken]
  ELSE IF api.spotify.tokenPromise # NoPromise
  THEN [how |-> "joined", api |-> api, promise |-> api.spotify.tokenPromise,
        token |-> NoToken]
  ELSE [how |-> "started",
        api |-> [api EXCEPT !.promises = Append(@, Pending),
                            !.spotify.tokenPromise = Len(api.promises) + 1],
        promise |-> Len(api.promises) + 1, token |-> NoToken]

\* refreshToken after the answer of the token endpoint
refreshToken(spotify, ok, token, lasting) ==
  IF ok
  THEN [spotify EXCEPT !.accessToken = token, !.unexpired = lasting]
  ELSE [spotify EXCEPT !.accessToken = NoToken, !.unexpired = FALSE]

\* the refresh requests that have not been answered
InFlight(promises) == {p \in 1..Len(promises) : promises[p].state = "pending"}

\* a turn of the loop of apiRequest up to its first await: the loop
\* condition and the call of getAccessToken
loopTurn(api, c) ==
  LET caller == api.callers[c]
      got == getAccessToken([spotify |-> api.spotify, promises |-> api.promises])
      asked == [caller EXCEPT !.how = got.how, !.promise = got.promise,
                              !.token = got.token,
                              !.during = IF InFlight(api.promises) = {} THEN NoPromise
                                         ELSE CHOOSE p \in InFlight(api.promises) : TRUE]
  IN IF caller.retries > maxRetries
     THEN [api EXCEPT !.callers[c].pc = "fell"]
     ELSE [api EXCEPT
             !.spotify = got.api.spotify,
             !.promises = got.api.promises,
             !.callers[c] = [asked EXCEPT !.pc = CASE got.how = "cached" -> "http"
                                                  [] got.how = "joined" -> "joined"
                                                  [] got.how = "started" -> "awaiting"]]

\* variant of catchError in which a 429 always waits and goes round again
catchErrorWaitingAlways(api, c, error) ==
  LET retries == api.callers[c].retries + 1
      caught == [api EXCEPT !.callers[c].retries = retries, !.callers[c].error = error]
  IN IF error = "401" /\ retries <= maxRetries
     THEN loopTurn([caught EXCEPT !.spotify.accessToken = NoToken,
                                  !.spotify.unexpired = FALSE], c)
     ELSE IF error = "429"
     THEN [caught EXCEPT !.callers[c].pc = "waiting"]
     ELSE IF error = "timeout" /\ retries <= maxRetries
     THEN loopTurn(caught, c)
     ELSE [caught EXCEPT !.callers[c].pc = "thrown", !.callers[c].thrown = error]

\* the catch block of apiRequest; error is "401", "429", "timeout" (code
\* ECONNABORTED), "other", or "refresh" for the error of getAccessToken,
\* which has neither a response nor a code
catchError(api, c, error) ==
  LET retries == api.callers[c].retries + 1
      caught == [api EXCEPT !.callers[c].retries = retries, !.callers[c].error = error]
  IN IF error = "401" /\ retries <= maxRetries
     THEN loopTurn([caught EXCEPT !.spotify.accessToken = NoToken,
                                  !.spotify.unexpired = FALSE], c)
     ELSE IF error = "429" /\ retries <= maxRetries
     THEN [caught EXCEPT !.callers[c].pc = "waiting"]
     ELSE IF error = "timeout" /\ retries <= maxRetries
     THEN loopTurn(caught, c)
     ELSE [caught EXCEPT !.callers[c].pc = "thrown", !.callers[c].thrown = error]

\* the caller has the outcome of the promise it waited for
settled(api, c) ==
  LET p == api.promises[api.callers[c].promise]
  IN IF p.state = "fulfilled"
     THEN [api EXCEPT !.callers[c].pc = "http", !.callers[c].token = p.token]
     ELSE catchError(api, c, "refresh")

Api == [spotify |-> last.spotify, promises |-> last.promises, callers |-> last.callers]

ApiState(api) ==
  [op |-> "api", spotify |-> api.spotify, promises |-> api.promises,
   callers |-> api.callers]

InitApi ==
  /\ plays = {}
  /\ uploads = {}
  /\ nextId = 1
  /\ sourceDefault = "api"
  /\ faults = 0
  /\ last = [op |-> "api", spotify |-> SpotifyAPI, promises |-> <<>>,
             callers |-> [c \in Callers |-> NewCaller]]

\* a call of apiRequest runs up to the await of getAccessToken
ApiRequest(c) ==
  /\ last.callers[c].pc = "idle"
  /\ last' = ApiState(loopTurn(Api, c))
  /\ UNCHANGED <<plays, uploads, nextId, sourceDefault, faults>>

\* the token endpoint answers the refresh request; the token may be one that
\* expires within the minute
RefreshSettles(p) ==
  /\ p \in InFlight(last.promises)
  /\ \E ok \in BOOLEAN, lasting \in BOOLEAN :
       /\ ~ok => ~lasting
       /\ last' = [last EXCEPT
            !.spotify = refreshToken(@, ok, p, lasting),
            !.promises[p] = IF ok THEN [state |-> "fulfilled", token |-> p]
                            ELSE [state |-> "rejected", token |-> NoToken]]
  /\ UNCHANGED <<plays, uploads, nextId, sourceDefault, faults>>

\* the caller that started the refresh goes on after its await: the finally
\* block, then the request or the catch block of apiRequest
Resume(c) ==
  /\ last.callers[c].pc = "awaiting"
  /\ last.promises[last.callers[c].promise].state # "pending"
  /\ last' = ApiState(settled([Api EXCEPT !.spotify.tokenPromise = NoPromise], c))
  /\ UNCHANGED <<plays, uploads, nextId, sourceDefault, faults>>

\* a caller that was handed the promise of a refresh in progress goes on
Receive(c) ==
  /\ last.callers[c].pc = "joined"
  /\ last.promises[last.callers[c].promise].state # "pending"
  /\ last' = ApiState(settled(Api, c))
  /\ UNCHANGED <<plays, uploads, nextId, sourceDefault, faults>>

\* the Web API answers the request of the caller, or the request times out
Http(c) ==
  /\ last.callers[c].pc = "http"
  /\ \E outcome \in {"ok", "401", "429", "timeout", "other"} :
       LET sent == [Api EXCEPT !.callers[c].attempts = @ + 1]
       IN last' = ApiState(IF outcome = "ok"
                           THEN [sent EXCEPT !.callers[c].pc = "returned",
                                             !.callers[c].data = "data"]
                           ELSE catchError(sent, c, outcome))
  /\ UNCHANGED <<plays, uploads, nextId, sourceDefault, faults>>

\* the wait after a 429 is over
TimerFires(c) ==
  /\ last.callers[c].pc = "waiting"
  /\ last' = ApiState(loopTurn(Api, c))
  /\ UNCHANGED <<plays, uploads, nextId, sourceDefault, faults>>

\* the cached token comes within a minute of its expiry
Expire ==
  /\ last.spotify.accessToken # NoToken
  /\ last.spotify.unexpired
  /\ last' = [last EXCEPT !.spotify.unexpired = FALSE]
  /\ UNCHANGED <<plays, uploads, nextId, sourceDefault, faults>>

NextApi ==
  \/ \E c \in Callers : ApiRequest(c)
  \/ \E p \in 1..MaxRefreshes : RefreshSettles(p)
  \/ \E c \in Callers : Resume(c)
  \/ \E c \in Callers : Receive(c)
  \/ \E c \in Callers : Http(c)
  \/ \E c \in Callers : TimerFires(c)
  \/ Expire

\* requests are answered or time out, timers fire and continuations run;
\* nothing obliges a caller to call
SpecApi ==
  /\ InitApi
  /\ [][NextApi]_vars
  /\ \A p \in 1..MaxRefreshes : WF_vars(RefreshSettles(p))
  /\ \A c \in Callers :
       WF_vars(Resume(c)) /\ WF_vars(Receive(c)) /\ WF_vars(Http(c))
         /\ WF_vars(TimerFires(c))

\* SpotifyTracker: the isRunning flag over the invocations of
\* fetchAndStorePlays (the cron job, the run at start, manualSync)

MaxRuns == 3

\* the invocations, numbered in the order in which they are made
Runs == 1..MaxRuns

\* what getRecentlyPlayed may return
TrackerItems ==
  {items \in ConcurrentItems :
     \A k \in 1..Len(items) : items[k].played_at \in {55000, 65000}}

NewRun == [pc |-> "idle", items |-> <<>>, i |-> 0, newPlays |-> 0,
           fetched |-> FALSE, upserts |-> 0]

\* a run that has passed the isRunning test and not ended
Active(run) == run.pc \in {"fetching", "storing"}

\* variant of invoke without the isRunning test
invokeWithoutGuard(tracker, r) ==
  [tracker EXCEPT !.isRunning = TRUE, !.runs[r].pc = "fetching",
                  !.runs[r].fetched = TRUE]

\* fetchAndStorePlays up to its first await: the isRunning test, the
\* assignment and the call of getRecentlyPlayed
invoke(tracker, r) ==
  IF tracker.isRunning
  THEN [tracker EXCEPT !.runs[r].pc = "skipped"]
  ELSE [tracker EXCEPT !.isRunning = TRUE, !.runs[r].pc = "fetching",
                       !.runs[r].fetched = TRUE]

\* the end of a run that started: the finally block; the locals of the run
\* are gone
finish(tracker, r, pc) ==
  [tracker EXCEPT !.isRunning = FALSE, !.runs[r].pc = pc,
                  !.runs[r].items = <<>>, !.runs[r].i = 0]

Tracker == [isRunning |-> last.isRunning, runs |-> last.runs]

TrackerState(tracker) ==
  [op |-> "tracker", isRunning |-> tracker.isRunning, runs |-> tracker.runs]

InitTracker ==
  /\ plays = {}
  /\ uploads = {}
  /\ nextId = 1
  /\ sourceDefault \in {"api", "import"}
  /\ faults = 0
  /\ last = [op |-> "tracker", isRunning |-> FALSE, runs |-> [r \in Runs |-> NewRun]]

\* the cron job, startCronJob or manualSync calls fetchAndStorePlays
Invoke(r) ==
  /\ last.runs[r].pc = "idle"
  /\ \A q \in 1..(r - 1) : last.runs[q].pc # "idle"
  /\ last' = TrackerState(invoke(Tracker, r))
  /\ UNCHANGED <<plays, uploads, nextId, sourceDefault, faults>>

\* getRecentlyPlayed returns or throws
FetchSettles(r) ==
  /\ last.runs[r].pc = "fetching"
  /\ \E items \in TrackerItems, fails \in BOOLEAN :
       /\ faults + Bit(fails) <= MaxFaults
       /\ fails => items = <<>>
       /\ faults' = faults + Bit(fails)
       /\ last' = TrackerState(
            IF fails THEN finish(Tracker, r, "threw")
            ELSE IF Len(items) = 0 THEN finish(Tracker, r, "completed")
            ELSE [Tracker EXCEPT !.runs[r].pc = "storing", !.runs[r].items = items,
                                 !.runs[r].i = 1])
  /\ UNCHANGED <<plays, uploads, nextId, sourceDefault>>

\* one turn of the loop of fetchAndStorePlays: the upsert of item i; after
\* the last item the run returns
StoreItem(r) ==
  /\ last.runs[r].pc = "storing"
  /\ \E fails \in BOOLEAN :
       LET run == last.runs[r]
           play == run.items[run.i]
           skipped == ~play.hasTrack \/ ~play.hasPlayedAt
           done == Upsert(Store, <<playData(play, sourceDefault)>>)
           failed == fails \/ done.error
           stored == [Tracker EXCEPT
                        !.runs[r].i = @ + 1,
                        !.runs[r].upserts = IF skipped THEN @ ELSE @ + 1,
                        !.runs[r].newPlays = IF skipped \/ failed THEN @ ELSE @ + 1]
       IN /\ faults + Bit(fails) <= MaxFaults
          /\ fails => ~skipped
          /\ faults' = faults + Bit(fails)
          /\ plays' = IF skipped \/ failed THEN plays ELSE done.plays
          /\ nextId' = IF skipped \/ failed THEN nextId ELSE done.nextId
          /\ last' = TrackerState(IF run.i < Len(run.items) THEN stored
                                  ELSE finish(stored, r, "completed"))
  /\ UNCHANGED <<uploads, sourceDefault>>

NextTracker ==
  \/ \E r \in Runs : Invoke(r)
  \/ \E r \in Runs : FetchSettles(r)
  \/ \E r \in Runs : StoreItem(r)

\* the calls a run awaits are answered; nothing obliges anyone to invoke
SpecTracker ==
  /\ InitTracker
  /\ [][NextTracker]_vars
  /\ \A r \in Runs : WF_vars(FetchSettles(r)) /\ WF_vars(StoreItem(r))

\* Properties

\* rows of the user the tracker stored, and rows that came from files
LiveRows == {r \in plays : r.user_id = UserId /\ r.source = "api"}

ImportedRows == {r \in plays : r.user_id = UserId /\ r.source = "import"}

\* two instants at most five seconds apart
Within5s(a, b) == a - b <= 5000 /\ b - a <= 5000

NearLive(t) == \E l \in LiveRows : Within5s(t, l.played_at)

\* an import is reported as failed with the given message
Rejected(message) ==
  /\ ~last.result.success
  /\ last.result.error = message

AllCandidatesNearTheOneLiveRow ==
  /\ last.op = "import"
  /\ Len(last.cands) >= 1
  /\ Cardinality(LiveRows) = 1
  /\ \A i \in 1..Len(last.cands) : NearLive(last.cands[i].played_at)

C4_WindowInclusive ==
  last.op = "import" =>
    \A i \in 1..Len(last.cands) :
      LET t == last.cands[i].played_at
          atEdge == \E l \in LiveRows : l.played_at = t + 5000 \/ l.played_at = t - 5000
          outside == \A l \in LiveRows : l.played_at >= t + 5001 \/ l.played_at <= t - 5001
      IN /\ atEdge => /\ hasNearbyApiPlay(plays, t, FALSE)
                      /\ last.qfailed = {} => last.cands[i] \notin SeqToSet(last.kept)
         /\ outside => /\ ~hasNearbyApiPlay(plays, t, FALSE)
                       /\ last.cands[i] \in SeqToSet(last.kept)

C4_Witness ==
  /\ last.op = "import"
  /\ last.qfailed = {}
  /\ Len(last.cands) = 1
  /\ \E l \in LiveRows : l.played_at = last.cands[1].played_at + 5000
  /\ \A l \in LiveRows : l.played_at >= last.cands[1].played_at + 5000
  /\ last.kept = <<>>

\* C5: a reconcile run deletes no live row and changes no row it keeps: the
\* rows after it are rows from before it, the live ones all among them.
C5_ReconcileOnlyDeletesImportedRows ==
  [][last'.op = "reconcile" =>
       /\ plays' \subseteq plays
       /\ {r \in plays' : r.source = "api"} = {r \in plays : r.source = "api"}
       /\ \A r \in plays \ plays' : r.source = "import"]_vars

C5_Witness ==
  /\ last.op = "reconcile"
  /\ last.deleted # {}
  /\ \A r \in plays : r.id \notin last.deleted
  /\ \E r \in plays : r.source = "api"

\* C6: a near-duplicate query that fails counts as no match: at import the
\* candidate is kept, at reconcile the row is not deleted.
C6_FailedQueryKeeps ==
  /\ last.op = "import" =>
       /\ \A i \in last.qfailed : last.cands[i] \in SeqToSet(last.kept)
       /\ Len(last.kept) >= Cardinality(last.qfailed)
  /\ last.op = "reconcile" =>
       \A id \in last.qfailed : /\ id \notin last.deleted
                                /\ id \notin last.ids
                                /\ \E r \in plays : r.id = id

C6_Witness ==
  /\ last.op = "reconcile"
  /\ \E id \in last.qfailed :
       \E r \in ImportedRows : r.id = id /\ NearLive(r.played_at)

\* C7 as stated: an import of the content of the successful import just before
\* it, by the same user, is rejected as a duplicate upload and writes nothing.
\* Stated for behaviours in which no store call has failed.
C7_ReimportRejected ==
  (last.op = "import" /\ last.again /\ faults = 0)
    => (Rejected(DuplicateUpload) /\ ~last.wrote)

\* C8 as stated: the duplicate check goes by user and content, whatever the
\* file is called: with an upload of this content on record for the user, and
\* the lookup answered, the import is rejected as a duplicate upload;
\* and it is rejected so only when there is such a record.
C8_CheckKeyedOnUserAndContent ==
  last.op = "import" =>
    /\ (last.hadRecord /\ ~last.dupFailed) => Rejected(DuplicateUpload)
    /\ Rejected(DuplicateUpload) => last.hadRecord

\* how many candidates of the last import lie within five seconds of a live row
NearCount == Cardinality({i \in 1..Len(last.cands) : NearLive(last.cands[i].played_at)})

\* C9 as stated, its count of duplicates: an import with N candidates, M of
\* them near a live row and M < N, succeeds and reports duplicates = M. Stated
\* for imports whose near-duplicate queries were all answered.
C9_DuplicatesReported ==
  (last.op = "import" /\ last.qfailed = {} /\ NearCount < Len(last.cands))
    => (last.result.success /\ last.result.duplicates = NearCount)

\* C10: an import that fails has written nothing, neither a play nor an upload
\* record, and its result carries the reason as its one error.
C10_FailureWritesNothing ==
  (last.op = "import" /\ ~last.result.success) =>
    /\ ~last.wrote
    /\ "error" \in DOMAIN last.result

C10_Witness ==
  /\ last.op = "import"
  /\ Rejected(AllDuplicates)
  /\ ~last.wrote
  /\ LiveRows # {}
  /\ uploads = {}


\* C11 as stated: a successful import reports as insertedPlays the number of
\* play rows the call added to the store, and the upload record it writes
\* carries the same number.
C11_InsertedIsWhatWasAdded ==
  (last.op = "import" /\ last.result.success) =>
    /\ last.result.insertedPlays = last.added
    /\ \A u \in last.recorded : u.inserted_plays = last.added

\* two rows of one user with the same track identity and the same played_at
Alike(r, q) ==
  /\ r.user_id = q.user_id
  /\ r.track_id = q.track_id
  /\ r.played_at = q.played_at

BothDone ==
  /\ last.op = "concurrent"
  /\ last.imp.pc = "done"
  /\ last.syn.pc = "done"

ZeroDuration(item) ==
  \/ ~Has(item, "msPlayed")
  \/ ParseIntText(item["msPlayed"].v).nan
  \/ ParseIntText(item["msPlayed"].v).n = 0

\* the positions of the records with a valid timestamp and a duration other
\* than 0
Playable(items) ==
  {i \in 1..Len(items) : /\ convertEndTime(items[i]).ok
                         /\ ~generateTrackId(items[i]).throws
                         /\ ~ZeroDuration(items[i])}

\* the transform discards exactly the records of zero duration, for every file
TransformDiscardsZero ==
  \A d \in Files :
    /\ Len(Parsed[d].plays) = Cardinality(Playable(d.items))
    /\ \A k \in 1..Len(Parsed[d].plays) : Parsed[d].plays[k].duration_ms # 0
    /\ \A i \in Playable(d.items) :
         \E k \in 1..Len(Parsed[d].plays) :
           Parsed[d].plays[k].played_at = convertEndTime(d.items[i]).ms

\* the records of the file of the last import, which succeeded
ImportedItems == last.file_hash[1].items

Stored(k) == \E r \in plays : r.played_at = Candidate(k).played_at

\* the offset of the batch candidate k falls into: batches of 100
OffsetOf(k) == ((k - 1) \div 100) * 100

\* C16: the candidates go to the store in consecutive batches of at most 100,
\* each attempted once and in order.  A batch that fails adds one entry to the
\* errors and none of its rows; every other batch stores all of its rows,
\* whether it comes before or after a failed one.
C16_EveryBatchAttemptedOnce ==
  (last.op = "batch" /\ last.calls > 0) =>
    /\ Len(last.errors) = Cardinality(last.bfailed)
    /\ \A j \in 1..Len(last.errors) : last.errors[j] \in last.bfailed
    /\ \A j \in 1..(Len(last.errors) - 1) : last.errors[j] < last.errors[j + 1]
    /\ \A k \in 1..last.n :
         /\ OffsetOf(k) \notin last.bfailed => Stored(k)
         /\ OffsetOf(k) \in last.bfailed => (Stored(k) <=> k \in last.had)
    /\ last.inserted = Cardinality({k \in 1..last.n : OffsetOf(k) \notin last.bfailed})

\* 201 candidates in three batches, the second of which failed
C16_Witness ==
  /\ last.op = "batch"
  /\ last.calls = 1
  /\ last.n = 201
  /\ last.bfailed = {100}
  /\ last.errors = <<100>>
  /\ last.inserted = 101
  /\ Stored(100) /\ ~Stored(101) /\ ~Stored(200) /\ Stored(201)

\* C17: an import that comes to the persist step records its upload whatever
\* became of the batches, unless the store fails or refuses that write; and
\* when the write of the upload record fails, the result is the one the call
\* gives when the write goes through.
C17_UploadRecordedWhateverTheBatches ==
  last.op = "import" =>
    /\ (last.result.success /\ ~last.recFailed /\ ~last.hadRecord) =>
         last.recorded = {[filename |-> last.result.filename,
                           file_hash |-> last.file_hash,
                           user_id |-> UserId,
                           total_plays |-> last.result.totalPlays,
                           inserted_plays |-> last.result.insertedPlays]}
    /\ (last.recFailed \/ last.hadRecord) => last.recorded = {}
    /\ last.recFailed => last.result.success /\ last.result = last.ifRecorded

\* the only batch of an import failed and the upload is on record
C17_Witness ==
  /\ last.op = "import"
  /\ last.result.success
  /\ last.bfailed # {}
  /\ last.result.insertErrors = Cardinality(last.bfailed)
  /\ Cardinality(last.recorded) = 1

\* the write of the upload record failed and the import reports success
C17_WitnessRecordFailed ==
  /\ last.op = "import"
  /\ last.recFailed
  /\ last.result.success
  /\ last.recorded = {}

\* the plays of a list that did not come from a file, in their order
NotImported(list) ==
  LET Other(p) == p.source # "import" IN SelectSeq(list, Other)

\* the candidate at position i of the filtered list is matched: its query was
\* answered and a live row of the user lies within five seconds of it
Matched(i) ==
  /\ i \notin last.qfailed
  /\ NearLive(last.list[i].played_at)

\* the positions of the filtered list the filter has to keep
KeptPositions ==
  {i \in 1..Len(last.list) : last.list[i].source # "import" \/ ~Matched(i)}

\* the j-th of the positions to keep
KeptPosition(j) ==
  CHOOSE i \in KeptPositions : Cardinality({m \in KeptPositions : m <= i}) = j

\* C18: only candidates of source 'import' go to the matcher.  The plays of any
\* other source are all in the kept list, unchanged and in their order, and
\* none of them is counted as removed, also when a live row lies within five
\* seconds of them.
C18_OnlyImportedFiltered ==
  (last.op = "filter" /\ last.called) =>
    /\ NotImported(last.cleaned) = NotImported(last.list)
    /\ last.removed <= Len(last.list) - Len(NotImported(last.list))
    /\ last.removed = Len(last.list) - Len(last.cleaned)

\* a live play and an imported candidate on the instant of a stored live row:
\* the first is kept, the second removed
C18_Witness ==
  /\ last.op = "filter" /\ last.called
  /\ last.list = <<PlayOf("api", 60000), PlayOf("import", 60000)>>
  /\ last.qfailed = {}
  /\ NearLive(60000)
  /\ last.cleaned = <<PlayOf("api", 60000)>>
  /\ last.removed = 1

\* C19: the kept list is the input without the imported candidates the matcher
\* found a match for, in the order of the input: position by position, a
\* candidate is kept exactly when it is not imported or was not matched (a
\* failed query is no match), and removed + length(kept) = length(input).
C19_KeptIsOrderedSubsequence ==
  (last.op = "filter" /\ last.called) =>
    /\ Len(last.cleaned) = Cardinality(KeptPositions)
    /\ \A j \in 1..Len(last.cleaned) : last.cleaned[j] = last.list[KeptPosition(j)]
    /\ last.removed + Len(last.cleaned) = Len(last.list)

\* of three plays the middle one is matched and removed; the other two are
\* kept in their order
C19_Witness ==
  /\ last.op = "filter" /\ last.called
  /\ last.list = <<PlayOf("import", 65001), PlayOf("import", 60000), PlayOf("none", 60000)>>
  /\ last.qfailed = {}
  /\ NearLive(60000)
  /\ last.cleaned = <<PlayOf("import", 65001), PlayOf("none", 60000)>>
  /\ last.removed = 1

\* C20 as stated: every row a run of the tracker adds is stored with source
\* 'api', so that the matcher sees it as a live row and the reconciler never
\* takes it for an imported one.
C20_LiveRowsStoredAsLive ==
  (last.op = "sync" /\ ~last.threw) =>
    \A r \in plays : r.id \in last.added => r.source = "api"

\* the counts an import result reports
ResultCounts == {"totalPlays", "insertedPlays", "duplicates", "parseErrors", "insertErrors"}

\* C21 as stated: every import result, of a success and of a failure alike,
\* carries the success flag and the five counts, and a failure result carries
\* one error reason besides.  (The elapsed time is in both results of the
\* code and is left out of the model's results.)
C21_ResultAlwaysCarriesCounts ==
  last.op = "import" =>
    /\ "success" \in DOMAIN last.result
    /\ ResultCounts \subseteq DOMAIN last.result
    /\ ~last.result.success <=> "error" \in DOMAIN last.result

\* a text of decimal digits only
Numeric(s) == s # <<>> /\ \A i \in 1..Len(s) : IsDigit(s[i])

\* the days of a month of the calendar
DaysInMonth(year, month) ==
  IF month \in {4, 6, 9, 11} THEN 30
  ELSE IF month # 2 THEN 31
  ELSE IF year % 4 = 0 /\ (year % 100 # 0 \/ year % 400 = 0) THEN 29 ELSE 28

\* the last converted timestamp has a component that is no number or is out
\* of its range
Malformed ==
  \/ \E c \in {last.year, last.month, last.day, last.hour, last.minute} : ~Numeric(c)
  \/ DigitPrefix(last.month, 0) \notin 1..12
  \/ DigitPrefix(last.day, 0) \notin
       1..DaysInMonth(DigitPrefix(last.year, 0), DigitPrefix(last.month, 0))
  \/ DigitPrefix(last.hour, 0) \notin 0..23
  \/ DigitPrefix(last.minute, 0) \notin 0..59

\* C22 as stated: convertEndTime fails for every timestamp with a component
\* that is no number or is out of range (month outside 1..12, day outside the
\* month, hour outside 0..23, minute outside 0..59); none is mapped to a
\* rolled-over instant.
C22_MalformedTimestampFails ==
  (last.op = "convert" /\ Malformed) => ~last.ok

\* a name after lower-casing and trimming; an absent name comes to nothing
Normalised(name) == IF name.present THEN Trim(ToLowerCase(name.v)) ELSE <<>>

\* C24 as stated: two pairs of names that are equal after lower-casing and
\* trimming get the same identifier, and a pair with a name that is absent or
\* empty after that normalisation gets null.
C24_IdentityNormalised ==
  last.op = "identity" =>
    /\ (/\ Normalised(last.first.track) = Normalised(last.second.track)
        /\ Normalised(last.first.artist) = Normalised(last.second.artist))
         => last.first.id = last.second.id
    /\ \A p \in {last.first, last.second} :
         (Normalised(p.track) = <<>> \/ Normalised(p.artist) = <<>>) => p.id = NullId

\* the positions of the records of the last transformed file that fail: the
\* timestamp converts to nothing, or building the play throws
FailedRecords ==
  {i \in 1..Len(last.items) :
     ~convertEndTime(last.items[i]).ok \/ generateTrackId(last.items[i]).throws}

\* the positions of the records that become candidates
CandidateRecords ==
  {i \in 1..Len(last.items) : i \notin FailedRecords /\ ~ZeroDuration(last.items[i])}

\* C23: in the transform every record that fails (its timestamp is invalid, or
\* processing it raises an error) adds one entry to the errors and is skipped;
\* all other records are still processed, in order; and with a candidate left
\* the import goes on and reports the errors as a count.
C23_RecordErrorsCollected ==
  last.op = "transform" =>
    /\ Len(last.parsed.errors) = Cardinality(FailedRecords)
    /\ \A j \in 1..Len(last.parsed.errors) : last.parsed.errors[j][2] + 1 \in FailedRecords
    /\ \A j \in 1..(Len(last.parsed.errors) - 1) :
         last.parsed.errors[j][2] < last.parsed.errors[j + 1][2]
    /\ Len(last.parsed.plays) = Cardinality(CandidateRecords)
    /\ \A i \in CandidateRecords :
         last.parsed.plays[Cardinality({m \in CandidateRecords : m <= i})].played_at
           = convertEndTime(last.items[i]).ms
    /\ (CandidateRecords # {} /\ ~last.hadRecord) =>
         /\ last.result.success
         /\ last.result.totalPlays = Cardinality(CandidateRecords)
         /\ last.result.parseErrors = Cardinality(FailedRecords)

\* a file of a record without a time, a good record and a record whose name is
\* a number: two errors, one candidate, and the import succeeds
C23_Witness ==
  /\ last.op = "transform"
  /\ last.items = <<RecordBadTime, RecordA, RecordNumberName>>
  /\ last.parsed.errors = <<<<"endTime", 0>>, <<"item", 2>>>>
  /\ Len(last.parsed.plays) = 1
  /\ last.result.success
  /\ last.result.parseErrors = 2
  /\ Cardinality(plays) = 1

\* the ids of the imported rows of the user, as stored before a step, that the
\* matcher finds a match for in the step: a live row lies within five seconds
\* and the row's query is answered
MatchedBefore ==
  {r.id : r \in {x \in plays : /\ x.user_id = UserId
                               /\ x.source = "import"
                               /\ x.id \notin last'.qfailed
                               /\ \E l \in plays : /\ l.user_id = UserId
                                                   /\ l.source = "api"
                                                   /\ Within5s(x.played_at, l.played_at)}}

\* C26: the ids handed to the batched delete are exactly the ids of the loaded
\* imported rows the matcher found a match for, wherever they stand in the
\* loaded list: no id of a kept row is among them, their number is the removed
\* count reported, and the delete takes just those rows.
C26_DeleteExactlyMatchedIds ==
  [][(last'.op = "dedup" /\ last'.ids # {}) =>
       /\ last'.ids = MatchedBefore
       /\ last'.cleaned =>
            /\ Cardinality(last'.ids) = last'.removed
            /\ plays' = {r \in plays : r.id \notin last'.ids}]_vars

\* of three imported rows the two in the middle of the loaded list were
\* matched and deleted, the first and the live row are still there
C26_Witness ==
  /\ last.op = "dedup"
  /\ last.cleaned
  /\ last.ids = {3, 4}
  /\ last.removed = 2
  /\ {r.id : r \in plays} = {1, 2, 5}

\* C28 as stated: runDeduplication never rejects; when a store call made
\* during it fails it returns a result with success = false, which the
\* endpoint turns into its 'Deduplication failed' response.
C28_DeduplicationNeverRejects ==
  last.op = "dedup" =>
    /\ ~last.rejected
    /\ last.failed => /\ ~last.result.success
                      /\ last.response.message = "Deduplication failed"

\* the place of a step of importStreamingHistory in the order of its steps
StepRank(pc) ==
  CASE pc = "check" -> 1
    [] pc = "filter" -> 2
    [] pc = "insert" -> 3
    [] pc = "record" -> 4
    [] pc = "done" -> 5

\* C27: an import call takes its steps in one fixed order (the duplicate
\* check with validation and parsing, then the filter, then the batches, then
\* the upload record), never goes back to a step and repeats none: each
\* candidate is looked up once and each batch attempted once, failed or not;
\* a call leaves early only from the check or the filter, with a failure; the
\* upload record is written only by the step that follows the last batch, at
\* most one record per call.
C27_StepsInFixedOrder ==
  [][last.op = "concurrent" =>
       LET a == last.imp
           b == last'.imp
       IN /\ StepRank(b.pc) >= StepRank(a.pc)
          /\ b.pc # a.pc =>
               \/ StepRank(b.pc) = StepRank(a.pc) + 1
               \/ b.pc = "done" /\ a.pc \in {"check", "filter"} /\ b.result # "success"
          /\ (b # a /\ b.pc = a.pc) =>
               \/ a.pc = "filter" /\ b.i = a.i + 1
               \/ a.pc = "insert" /\ b.i = a.i + BatchSize
          /\ b.pc = "record" => b.i >= Len(b.kept)
          /\ uploads' # uploads =>
               /\ a.pc = "record" /\ b.pc = "done"
               /\ a.i >= Len(a.kept)
               /\ a.inserted + a.errors * BatchSize >= Len(a.kept)
               /\ Cardinality(uploads') = Cardinality(uploads) + 1]_vars

\* an import that ran among the steps of a sync has written its upload record
\* after a batch that failed
C27_Witness ==
  /\ last.op = "concurrent"
  /\ last.imp.pc = "done"
  /\ last.imp.result = "success"
  /\ last.imp.errors = 1
  /\ last.mixed
  /\ Cardinality(uploads) = 1

\* C25: whatever the order in which callers ask for a token and requests
\* are answered, at most one refresh request is unanswered at any time, and
\* a caller that asks while one is unanswered is handed the promise of that
\* refresh and gets its outcome: the token that refresh issued, or its
\* failure.
C25_SingleFlightRefresh ==
  last.op = "api" =>
    /\ Cardinality(InFlight(last.promises)) <= 1
    /\ \A c \in Callers :
         LET k == last.callers[c]
         IN k.during # NoPromise =>
              /\ k.how = "joined"
              /\ k.promise = k.during
              /\ k.pc # "joined" =>
                   CASE last.promises[k.during].state = "fulfilled" ->
                          /\ k.token = last.promises[k.during].token
                          /\ k.token # NoToken
                     [] last.promises[k.during].state = "rejected" ->
                          /\ k.pc = "thrown"
                          /\ k.thrown = "refresh"
                          /\ k.token = NoToken
                     [] OTHER -> FALSE

\* a caller that asked while the refresh another caller had started was
\* unanswered has sent its request with the token of that refresh
C25_Witness ==
  /\ last.op = "api"
  /\ \E c, d \in Callers :
       /\ last.callers[d].how = "started"
       /\ last.callers[c].during = last.callers[d].promise
       /\ last.callers[c].during # NoPromise
       /\ last.callers[c].pc = "returned"
       /\ last.callers[c].token = last.promises[last.callers[d].promise].token

\* a call of apiRequest that has started and not ended
Requesting(c) == last.callers[c].pc \in {"awaiting", "joined", "http", "waiting", "fell"}

Ended(c) == last.callers[c].pc \in {"returned", "thrown"}

\* C29: a call of apiRequest sends at most 3 requests to the Web API and
\* ends: it returns the data of a request that succeeded or throws the error
\* it caught last, and never leaves its loop without either; after a 401 that
\* it retries the cached token is gone before it asks for a token again; an
\* error other than 401, 429 or a timeout is thrown at once.
C29_RequestEndsWithinThreeAttempts ==
  /\ [](last.op = "api" =>
          \A c \in Callers :
            LET k == last.callers[c]
            IN /\ k.attempts <= maxRetries + 1
               /\ k.pc # "fell"
               /\ k.pc = "returned" => k.data = "data" /\ k.thrown = "none"
               /\ k.pc = "thrown" => k.thrown = k.error /\ k.data = "none"
               /\ k.error \notin {"none", "401", "429", "timeout"} =>
                    k.pc = "thrown" /\ k.retries = k.attempts + Bit(k.error = "refresh"))
  /\ [][last.op = "api" =>
          \A c \in Callers :
            (/\ last'.callers[c].attempts = last.callers[c].attempts + 1
             /\ last'.callers[c].retries = last.callers[c].retries + 1
             /\ last'.callers[c].error = "401"
             /\ last'.callers[c].pc # "thrown") =>
              /\ last'.spotify.accessToken = NoToken
              /\ last'.callers[c].how \in {"joined", "started"}]_vars
  /\ \A c \in Callers : Requesting(c) ~> Ended(c)

\* a call has thrown the 429 of its third request, another has gone round
\* after a 401
C29_Witness ==
  /\ last.op = "api"
  /\ \E c \in Callers :
       /\ last.callers[c].pc = "thrown"
       /\ last.callers[c].attempts = 3
       /\ last.callers[c].thrown = "429"
  /\ \E c \in Callers :
       /\ last.callers[c].error = "401"
       /\ last.callers[c].pc \in {"awaiting", "joined"}

\* C30: at most one run of fetchAndStorePlays is past the isRunning test at
\* any time; an invocation made while isRunning is true returns at once and
\* neither fetches nor writes; isRunning is true exactly while a run that
\* started has not ended, whether it ended by returning or by throwing, so
\* it is false again after every run and the next invocation starts.
C30_OneRunAtATime ==
  /\ [](last.op = "tracker" =>
          /\ Cardinality({r \in Runs : Active(last.runs[r])}) <= 1
          /\ last.isRunning <=> \E r \in Runs : Active(last.runs[r])
          /\ \A r \in Runs :
               last.runs[r].pc = "skipped" =>
                 ~last.runs[r].fetched /\ last.runs[r].upserts = 0)
  /\ [][last.op = "tracker" =>
          \A r \in Runs :
            /\ (last.runs[r].pc = "idle" /\ last'.runs[r].pc # "idle") =>
                 /\ plays' = plays
                 /\ last'.runs[r].pc = IF last.isRunning THEN "skipped" ELSE "fetching"
            /\ (Active(last.runs[r]) /\ ~Active(last'.runs[r])) =>
                 /\ last'.runs[r].pc \in {"completed", "threw"}
                 /\ ~last'.isRunning]_vars
  /\ (last.op = "tracker" /\ last.isRunning) ~> ~last.isRunning

\* a run threw, an invocation during another run was skipped, and a later
\* run started and stored a play
C30_Witness ==
  /\ last.op = "tracker"
  /\ ~last.isRunning
  /\ \E a, b, c \in Runs :
       /\ last.runs[a].pc = "threw"
       /\ last.runs[b].pc = "skipped"
       /\ last.runs[c].pc = "completed"
       /\ last.runs[c].newPlays = 1

====
